---------------------------- MODULE Spec2Model ----------------------------
(***************************************************************************)
(* Model of the common-crawl domain crawler: the SQLite checkpoint store   *)
(* (checkpoint.py), the disk-based chunk pipeline (crawler_disk.py) and    *)
(* the per-TLD collector with resume (crawler_v2.py).                      *)
(*                                                                         *)
(* The specifications share the store:                                      *)
(*   SpecStore  - arbitrary sequences of save_domain calls on one store    *)
(*   Spec       - crawler_disk.py: pool workers, semaphore, chunk files,   *)
(*                dedup gate, per-task batches, commits                    *)
(*   SpecV2     - crawler_v2.py: collect_tld for one TLD, connection       *)
(*                errors, crash and re-run against the same checkpoint     *)
(*   SpecResume - SpecV2 without connection errors (same input each run)   *)
(*   SpecLive   - crawler_disk.py main with --live-check: producer pool,   *)
(*                verification workers, drain protocol, Ctrl-C, exit code  *)
(*   SpecLiveFair - SpecLive with fair scheduling of every thread          *)
(*   SpecArgs   - crawler_v2.py main from the command line to the pool,    *)
(*                first run and re-runs with --resume alone                *)
(*   SpecFind   - crawler_disk.py find_chunks_for_tlds on any sorted       *)
(*                cluster index                                            *)
(*   SpecCheckpoint - the CheckpointManager under any sequence of its      *)
(*                writing methods while the clock advances                 *)
(*   SpecScan   - the pool of crawler_disk.py on one chunk with malformed  *)
(*                lines                                                    *)
(*   SpecMinUrls - collect_tld of crawler.py and crawler_v2.py with --min  *)
(*   SpecExport - export_to_csv on any store                               *)
(*   SpecCollectors - crawler_v2.py: one collect_tld per listed TLD on the *)
(*                pool threads, sharing global_seen                        *)
(*   SpecReconnect - collect_tld with a remote index that fails between    *)
(*                records                                                  *)
(*   SpecStatsLock - the Stats object under concurrent method calls,       *)
(*                unlocked save_stats and a restart                        *)
(*   SpecStartup - main of both crawlers with and without --resume on an   *)
(*                existing checkpoint                                      *)
(***************************************************************************)
EXTENDS Integers, Sequences, FiniteSets, TLC

(***************************************************************************)
(* Bounds of the model                                                     *)
(***************************************************************************)
\* number of save_domain calls explored by SpecStore
MaxCalls == 3
\* largest url_count argument a caller passes in SpecStore
MaxUrlCount == 2
\* longest index listing a TLD returns in SpecV2
MaxItems == 3
\* largest --limit (domains per TLD) explored
MaxLimit == 2
\* number of process runs (first run, then re-runs after a crash or an exit)
MaxRuns == 3
\* number of error bursts (runs of consecutive errors of the remote index)
\* within one process run
MaxErrorBursts == 1
\* CheckpointManager.save_interval_domains (1000 in the source), scaled down
save_interval_domains == 3
\* the 500-domain batch of collect_tld, scaled down
V2BatchSize == 2
\* pool threads of crawler_disk (args.workers)
NumWorkers == 2
\* chunks found for the TLD in crawler_disk
MaxChunks == 2
\* lines of one chunk file
MaxLines == 2
\* largest --cache-size explored
MaxCacheSize == 2
\* the 200-item batch of process_chunk_from_disk, scaled down
DiskBatchSize == 2
\* verification threads (args.live_threads)
NumLiveWorkers == 2
\* CheckpointManager.save_interval_seconds (60 in the source), scaled down
save_interval_seconds == 2
\* last reading of the clock in SpecCheckpoint
MaxTime == 3
\* number of save_domain calls explored by SpecCheckpoint
MaxSaves == 4
\* pool threads of crawler_v2 in SpecCollectors
NumCollectors == 2
\* length of the listing in SpecCollectors
MaxListing == 2
\* reconnects of one collect_tld call explored by SpecReconnect
MaxReconnects == 6
\* threads that call Stats methods, their calls and the runs in SpecStatsLock
NumThreads == 2
MaxStatCalls == 3
MaxStatRuns == 2
\* lines of cluster.idx in SpecFind
MaxIndexLines == 3
\* highest chunk number cdx-N in SpecFind
MaxChunkId == 3

(***************************************************************************)
(* Values                                                                  *)
(***************************************************************************)
\* Python None
None == "None"
\* SQL NULL
SqlNull == "NULL"
\* no row (fetchone() returns None)
NoRow == [no_row |-> TRUE]

\* cms arguments a caller may pass to save_domain
CmsArgs == {None, "", "Shopify", "Magento"}
\* the domain SpecStore writes
StoreDomain == "shop.test"

VARIABLES
    db,                 \* the connection's view of the tables (uncommitted writes included)
    durable,            \* the tables as of the last conn.commit()
    domains_since_save, \* CheckpointManager.domains_since_save
    calls,              \* history: the save_domain calls made so far (SpecStore)
    v2_input,           \* crawler_v2: what cdx.iter('*.tld/*') yields, in order
    v2_limit,           \* crawler_v2: args.limit
    run,                \* crawler_v2: number of the current process run
    v2,                 \* crawler_v2: the locals of collect_tld and its position
    global_seen,        \* crawler_v2: main's global_seen set
    stats,              \* the Stats object of the running crawler
    hist,               \* history of the current run
    phase,              \* crawler_disk: position of main
    cache_size,         \* crawler_disk: args.cache_size
    limit,              \* crawler_disk: args.limit
    chunks,             \* crawler_disk: chunk ids not yet taken by a pool thread
    task,               \* crawler_disk: per pool thread, the locals of its task
    semaphore,          \* crawler_disk: free permits of the disk-cache semaphore
    files,              \* crawler_disk: chunk files present in chunk_cache/
    seen,               \* crawler_disk: the shared seen set
    live_queue,         \* crawler_disk: the items on live_queue, oldest first
    unfinished_tasks,   \* live_queue.unfinished_tasks (puts minus task_done calls)
    crawl_done,         \* the crawl_done event
    live_worker,        \* per verification thread, its position and its item
    live_csv,           \* live_detected.csv: open or closed, and its rows
    exit_status,        \* exit status of the process once main has ended
    DETECTOR_AVAILABLE, \* whether "from detector import check_domain" worked
    variant,            \* the program that runs the verification stage
    last_save_time,     \* CheckpointManager.last_save_time
    now,                \* the wall clock, time.time()
    args,               \* crawler_v2 main: the parsed command line
    find,               \* crawler_disk: the locals of find_chunks_for_tlds
    csv_file,           \* the file export_to_csv wrote, as lines of fields
    collector,          \* crawler_v2: per pool thread, the locals of collect_tld
    stats_lock,         \* Stats.lock: the thread holding it, 0 when it is free
    caller              \* per thread, its position inside a Stats method

storeVars == <<db, durable, domains_since_save>>
v2Vars == <<v2_input, v2_limit, run, v2, global_seen, stats, hist>>
diskVars == <<phase, cache_size, limit, chunks, task, semaphore, files, seen, live_queue>>
liveVars == <<unfinished_tasks, crawl_done, live_worker, live_csv, exit_status,
              DETECTOR_AVAILABLE, variant>>
clockVars == <<last_save_time, now>>
lockVars == <<stats_lock, caller>>
extraVars == <<csv_file, collector, lockVars>>
otherVars == <<clockVars, args, find, extraVars>>
vars == <<db, durable, domains_since_save, calls, v2_input, v2_limit, run, v2,
          global_seen, stats, hist, diskVars, liveVars, otherVars>>

\* the parts of the state a specification does not use stay at these values
StoreHistoryOff == calls = <<>>
V2Off ==
    /\ v2_input = <<>>
    /\ v2_limit = 0
    /\ run = 0
    /\ v2 = [pc |-> "off"]
    /\ global_seen = {}
    /\ stats = NoRow
    /\ hist = NoRow
DiskOff ==
    /\ phase = "off"
    /\ cache_size = 0
    /\ limit = 0
    /\ chunks = <<>>
    /\ task = <<>>
    /\ semaphore = 0
    /\ files = {}
    /\ seen = {}
    /\ live_queue = <<>>
LiveOff ==
    /\ unfinished_tasks = 0
    /\ crawl_done = FALSE
    /\ live_worker = <<>>
    /\ live_csv = NoRow
    /\ exit_status = None
    /\ DETECTOR_AVAILABLE = FALSE
    /\ variant = None
ClockOff ==
    /\ last_save_time = 0
    /\ now = 0
\* no file has been written (a written file has its header line)
NoFile == <<>>
LockOff ==
    /\ stats_lock = 0
    /\ caller = <<>>
ExtraOff ==
    /\ csv_file = NoFile
    /\ collector = <<>>
    /\ LockOff
OtherOff == ClockOff /\ args = NoRow /\ find = NoRow /\ ExtraOff

(***************************************************************************)
(* checkpoint.py: the domains table and save_domain                        *)
(***************************************************************************)
\* the tables right after _init_db on a new file
EmptyTables ==
    [domains |-> <<>>, tld_progress |-> <<>>, stats |-> NoRow, metadata |-> <<>>]

\* Python: cms or ''
PyOrEmpty(cms) == IF cms = None \/ cms = "" THEN "" ELSE cms

\* Python: 1 if is_ecommerce else 0
BoolToInt(b) == IF b THEN 1 ELSE 0

NULLIFDropped(x, y) == x
\* SQL NULLIF(x, y)
NULLIF(x, y) == IF x = y THEN SqlNull ELSE x

COALESCESwapped(x, y) == IF y # SqlNull THEN y ELSE x
\* SQL COALESCE(x, y)
COALESCE(x, y) == IF x # SqlNull THEN x ELSE y

\* SQL scalar MAX(x, y)
SqlMAX(x, y) == IF x >= y THEN x ELSE y

\* the ninth bound parameter of the statement: the literal 1 that fills
\* "url_count = url_count + ?" whatever url_count the caller passed
ConflictIncrement(url_count) == 1

\* ON CONFLICT(domain) DO UPDATE SET ...
UpsertRow(old, excluded, url_count) ==
    [old EXCEPT !.url_count = @ + ConflictIncrement(url_count),
                !.cms = COALESCE(NULLIF(excluded.cms, ""), @),
                !.is_ecommerce = SqlMAX(@, excluded.is_ecommerce)]

\* save_domain on the domains table: INSERT ... ON CONFLICT(domain) DO UPDATE
save_domain(rows, domain, tld, is_ecommerce, cms, url_count) ==
    LET excluded == [tld |-> tld,
                     is_ecommerce |-> BoolToInt(is_ecommerce),
                     cms |-> PyOrEmpty(cms),
                     url_count |-> url_count]
    IN  IF domain \in DOMAIN rows
        THEN [rows EXCEPT ![domain] = UpsertRow(@, excluded, url_count)]
        ELSE [d \in DOMAIN rows \cup {domain} |->
                 IF d = domain THEN excluded ELSE rows[d]]


\* get_all_domains()
get_all_domains(tables) == DOMAIN tables.domains

\* get_domains_for_tld(tld)
get_domains_for_tld(tables, tld) ==
    {d \in DOMAIN tables.domains : tables.domains[d].tld = tld}

\* get_tld_progress(tld): the row as a dict (completed read back with bool()),
\* or None (NoRow) when the TLD has no row
get_tld_progress(tables, tld) ==
    IF tld \in DOMAIN tables.tld_progress
    THEN [urls_scanned |-> tables.tld_progress[tld].urls_scanned,
          domains_found |-> tables.tld_progress[tld].domains_found,
          completed |-> tables.tld_progress[tld].completed # 0,
          last_url |-> tables.tld_progress[tld].last_url]
    ELSE NoRow

\* save_tld_progress: INSERT OR REPLACE of the TLD's row (the statement; the
\* conn.commit() that follows it is part of the calling action)
save_tld_progress(tables, tld, urls_scanned, domains_found, completed, last_url) ==
    LET old == tables.tld_progress
        row == [urls_scanned |-> urls_scanned,
                domains_found |-> domains_found,
                completed |-> BoolToInt(completed),
                last_url |-> last_url]
    IN  [tables EXCEPT !.tld_progress =
            [t \in DOMAIN old \cup {tld} |-> IF t = tld THEN row ELSE old[t]]]

\* save_stats: INSERT OR REPLACE of the single stats row
save_stats(tables, st) == [tables EXCEPT !.stats = st]

\* load_stats: the saved row when there is one, else the object as it was
load_stats(tables, st) == IF tables.stats # NoRow THEN tables.stats ELSE st

should_saveStrict(since_save, elapsed) ==
    since_save > save_interval_domains \/ elapsed
\* should_save(); elapsed stands for now - last_save_time >= save_interval_seconds
should_save(since_save, elapsed) ==
    since_save >= save_interval_domains \/ elapsed

(***************************************************************************)
(* SpecStore: any sequence of save_domain calls for one domain             *)
(***************************************************************************)
InitStore ==
    /\ db = EmptyTables
    /\ durable = EmptyTables
    /\ domains_since_save = 0
    /\ calls = <<>>
    /\ V2Off
    /\ DiskOff
    /\ LiveOff
    /\ OtherOff

StoreSaveDomain ==
    /\ Len(calls) < MaxCalls
    /\ \E e \in BOOLEAN, c \in CmsArgs, k \in 1..MaxUrlCount :
          /\ db' = [db EXCEPT !.domains =
                       save_domain(@, StoreDomain, "test", e, c, k)]
          /\ calls' = Append(calls, [is_ecommerce |-> e, cms |-> c, url_count |-> k])
    /\ domains_since_save' = domains_since_save + 1
    /\ UNCHANGED <<durable, v2Vars, diskVars, liveVars, otherVars>>

\* commit(): conn.commit() and reset of the flush counter
StoreCommit ==
    /\ db # durable \/ domains_since_save # 0
    /\ durable' = db
    /\ domains_since_save' = 0
    /\ UNCHANGED <<db, calls, liveVars, otherVars, v2Vars, diskVars>>

NextStore == StoreSaveDomain \/ StoreCommit

SpecStore == InitStore /\ [][NextStore]_vars

(***************************************************************************)
(* Properties of save_domain (SpecStore)                                   *)
(***************************************************************************)
\* the row of the domain SpecStore writes
StoreRow == db.domains[StoreDomain]
HasStoreRow == StoreDomain \in DOMAIN db.domains

\* the (is_ecommerce, cms) arguments of the calls made so far, in order
CallArgs == [i \in 1..Len(calls) |-> <<calls[i].is_ecommerce, calls[i].cms>>]

\* the calls that carry a non-empty platform
NonEmptyCalls == {i \in 1..Len(calls) : PyOrEmpty(calls[i].cms) # ""}
FirstNonEmptyCms ==
    IF NonEmptyCalls = {} THEN ""
    ELSE calls[CHOOSE i \in NonEmptyCalls : \A j \in NonEmptyCalls : i <= j].cms
LastNonEmptyCms ==
    IF NonEmptyCalls = {} THEN ""
    ELSE calls[CHOOSE i \in NonEmptyCalls : \A j \in NonEmptyCalls : i >= j].cms

\* C3: under any sequence of save_domain calls for one domain the row stays,
\* its is_ecommerce never goes from 1 to 0 and a non-empty cms is never
\* replaced by an empty or NULL one; after the calls (false, null),
\* (true, "Shopify"), (false, null) the row has is_ecommerce = 1 and
\* cms = "Shopify".
C3_MergeMonotone ==
    [][ /\ HasStoreRow =>
             /\ StoreDomain \in DOMAIN db'.domains
             /\ StoreRow.is_ecommerce = 1 => StoreRow'.is_ecommerce = 1
             /\ StoreRow.cms # "" => StoreRow'.cms \notin {"", SqlNull, None}
        /\ CallArgs' = << <<FALSE, None>>, <<TRUE, "Shopify">>, <<FALSE, None>> >>
             => StoreRow'.is_ecommerce = 1 /\ StoreRow'.cms = "Shopify"
      ]_vars

\* C3 witness: the three updates of the scenario have been applied
C3_Witness ==
    /\ CallArgs = << <<FALSE, None>>, <<TRUE, "Shopify">>, <<FALSE, None>> >>
    /\ HasStoreRow
    /\ StoreRow.is_ecommerce = 1
    /\ StoreRow.cms = "Shopify"

C5_IncrementByCallerCount ==
    [][ Len(calls') = Len(calls) + 1 =>
          LET k == calls'[Len(calls')].url_count
          IN  IF HasStoreRow
              THEN StoreRow'.url_count = StoreRow.url_count + k
              ELSE StoreRow'.url_count = k
      ]_vars

(***************************************************************************)
(* crawler_v2.py: collect_tld for one TLD, run with the defaults           *)
(* (--workers 1, --min 1, no --keywords, no exclude list)                  *)
(***************************************************************************)
\* the TLD of the run
V2Tld == "test"
\* args.pages (default)
ArgsPages == 80
\* max_retries of the CDX init loop
max_retries == 5
\* the ceiling on consecutive connection errors while iterating
MaxConsecutive == 5

\* the URLs the index may list
V2Urls == {"http://a.test/", "http://a.test/cart.js", "http://b.test/",
           "http://example.test/", "http://a.other/"}

\* extract_domain(url)
extract_domain(url) ==
    CASE url = "http://a.test/" -> "a.test"
      [] url = "http://a.test/cart.js" -> "a.test"
      [] url = "http://b.test/" -> "b.test"
      [] url = "http://example.test/" -> "example.test"
      [] url = "http://a.other/" -> "a.other"
      [] OTHER -> None

\* is_ecommerce(url, ECOMMERCE_KEYWORDS): 'cart' is a keyword
is_ecommerce(url) == url = "http://a.test/cart.js"

\* detect_cms(url): '/cart.js' is a Shopify pattern
detect_cms(url) == IF url = "http://a.test/cart.js" THEN "Shopify" ELSE None

\* domain.endswith('.' + tld)
EndsWithTld(domain, tld) ==
    /\ tld = "test"
    /\ domain \in {"a.test", "b.test", "example.test"}

\* any(b in domain for b in BAD_PATTERNS): 'example.' is a bad pattern
HasBadPattern(domain) == domain = "example.test"

\* the records of the listing: a URL, and the page number the record carries
V2Items == [url : V2Urls, page : {0}] \cup [url : {"http://b.test/"}, page : {ArgsPages + 1}]

\* a new Stats object
NewStats == [total_urls |-> 0, total_domains |-> 0, ecommerce_count |-> 0, skipped |-> 0]

\* the locals of collect_tld before it is called
V2Locals == [pc |-> "main", pos |-> 0, local_seen |-> <<>>, domains_saved |-> 0,
             batch_domains |-> 0, consecutive_errors |-> 0, retry_count |-> 0,
             last_url |-> ""]

ProgressCompletedNever(progress) == FALSE
\* progress and progress['completed']
ProgressCompleted(progress) == progress # NoRow /\ progress.completed

\* the history of a run that starts on the tables t
NewHist(t) == [completed_at_start |-> /\ V2Tld \in DOMAIN t.tld_progress
                                      /\ t.tld_progress[V2Tld].completed = 1,
               scanned |-> 0, accepted |-> {}, progress_writes |-> 0,
               fatal |-> FALSE, errors |-> 0, crashed |-> FALSE,
               store_failed |-> FALSE]

\* a first run on a new checkpoint file
InitV2 ==
    /\ db = EmptyTables
    /\ durable = EmptyTables
    /\ domains_since_save = 0
    /\ StoreHistoryOff
    /\ DiskOff
    /\ LiveOff
    /\ OtherOff
    /\ v2_input \in UNION {[1..n -> V2Items] : n \in 0..MaxItems}
    /\ v2_limit \in 1..MaxLimit
    /\ run = 1
    /\ v2 = V2Locals
    /\ global_seen = {}
    /\ stats = NewStats
    /\ hist = NewHist(EmptyTables)

\* main up to the pool: load_stats on --resume, global_seen from the store
V2Main ==
    /\ v2.pc = "main"
    /\ stats' = IF run > 1 THEN load_stats(db, stats) ELSE stats
    /\ global_seen' = get_all_domains(db)
    /\ v2' = [v2 EXCEPT !.pc = "collect"]
    /\ UNCHANGED <<storeVars, calls, liveVars, otherVars, diskVars, v2_input, v2_limit, run, hist>>

\* collect_tld, lines 224-238: return at once for a completed TLD, else seed
\* local_seen from the store
V2CollectStart ==
    /\ v2.pc = "collect"
    /\ IF ProgressCompleted(get_tld_progress(db, V2Tld))
       THEN v2' = [v2 EXCEPT !.pc = "returned"]
       ELSE v2' = [v2 EXCEPT !.pc = "init",
                             !.local_seen = [d \in get_domains_for_tld(db, V2Tld) |-> 1]]
    /\ UNCHANGED <<storeVars, calls, liveVars, otherVars, diskVars, v2_input, v2_limit, run, global_seen, stats, hist>>

\* the CDX init loop succeeds: the scan starts
V2InitOk ==
    /\ v2.pc = "init"
    /\ v2' = [v2 EXCEPT !.pc = "iter", !.pos = 0,
                        !.domains_saved = Cardinality(DOMAIN v2.local_seen),
                        !.batch_domains = 0, !.consecutive_errors = 0, !.last_url = ""]
    /\ UNCHANGED <<storeVars, calls, liveVars, otherVars, diskVars, v2_input, v2_limit, run, global_seen, stats, hist>>

\* the remote index may raise again within a burst, or start a new burst while
\* the run has had fewer than MaxErrorBursts
ErrorAllowed(consecutive) == consecutive > 0 \/ hist.errors < MaxErrorBursts
ErrorBursts(consecutive) == IF consecutive > 0 THEN hist.errors ELSE hist.errors + 1

\* cdx.iter raises in the init loop: retry, and return (tld, 0) after max_retries
V2InitFail ==
    /\ v2.pc = "init"
    /\ ErrorAllowed(v2.retry_count)
    /\ v2' = [v2 EXCEPT !.retry_count = @ + 1,
                        !.pc = IF v2.retry_count + 1 < max_retries THEN "init" ELSE "returned"]
    /\ hist' = [hist EXCEPT !.errors = ErrorBursts(v2.retry_count)]
    /\ UNCHANGED <<storeVars, calls, liveVars, otherVars, diskVars, v2_input, v2_limit, run, global_seen, stats>>

\* where the loop goes after an accepted domain: the limit check of line 357
AfterAccept(domains_saved) == IF domains_saved >= v2_limit THEN "finish" ELSE "iter"

\* one iteration of "for obj in cdx_iter" (lines 289-358), up to the flush test
V2NextItem ==
    /\ v2.pc = "iter"
    /\ v2.pos < Len(v2_input)
    /\ LET obj == v2_input[v2.pos + 1]
           url == obj.url
           domain == extract_domain(url)
           counted == [stats EXCEPT !.total_urls = @ + 1]
           step == [v2 EXCEPT !.pos = @ + 1, !.consecutive_errors = 0]
           seenUrl == [step EXCEPT !.last_url = url]
       IN  /\ hist' = [hist EXCEPT !.scanned = @ + 1,
                         !.accepted = IF /\ obj.page <= ArgsPages
                                         /\ domain # None
                                         /\ EndsWithTld(domain, V2Tld)
                                         /\ ~HasBadPattern(domain)
                                         /\ domain \notin global_seen
                                         /\ domain \notin DOMAIN v2.local_seen
                                      THEN @ \cup {domain} ELSE @]
           /\ IF obj.page > ArgsPages
              THEN \* break
                   /\ v2' = [step EXCEPT !.pc = "finish"]
                   /\ stats' = counted
                   /\ UNCHANGED <<storeVars, global_seen>>
              ELSE IF domain = None \/ ~EndsWithTld(domain, V2Tld)
              THEN /\ v2' = seenUrl
                   /\ stats' = counted
                   /\ UNCHANGED <<storeVars, global_seen>>
              ELSE IF HasBadPattern(domain)
              THEN /\ v2' = seenUrl
                   /\ stats' = [counted EXCEPT !.skipped = @ + 1]
                   /\ UNCHANGED <<storeVars, global_seen>>
              ELSE IF domain \in global_seen
              THEN /\ v2' = seenUrl
                   /\ stats' = counted
                   /\ UNCHANGED <<storeVars, global_seen>>
              ELSE IF domain \in DOMAIN v2.local_seen
              THEN /\ v2' = [seenUrl EXCEPT !.local_seen[domain] = @ + 1]
                   /\ stats' = counted
                   /\ UNCHANGED <<storeVars, global_seen>>
              ELSE \* a new domain: lines 330-350
                   \E elapsed \in BOOLEAN :
                     LET seen1 == [d \in DOMAIN v2.local_seen \cup {domain} |->
                                      IF d = domain THEN 1 ELSE v2.local_seen[d]]
                         saved == v2.domains_saved + 1
                         batch == v2.batch_domains + 1
                         flush == batch >= V2BatchSize
                                  \/ should_save(domains_since_save + 1, elapsed)
                     IN  /\ global_seen' = global_seen \cup {domain}
                         /\ stats' = [counted EXCEPT
                                        !.total_domains = @ + 1,
                                        !.ecommerce_count = @ + BoolToInt(is_ecommerce(url))]
                         /\ db' = [db EXCEPT !.domains =
                                     save_domain(@, domain, V2Tld, is_ecommerce(url),
                                                 detect_cms(url), 1)]
                         /\ domains_since_save' = domains_since_save + 1
                         /\ v2' = [seenUrl EXCEPT
                                     !.local_seen = seen1,
                                     !.domains_saved = saved,
                                     !.batch_domains = batch,
                                     !.pc = IF flush THEN "flush" ELSE AfterAccept(saved)]
                         /\ UNCHANGED durable
    /\ UNCHANGED <<calls, liveVars, otherVars, diskVars, v2_input, v2_limit, run>>

\* lines 351-355: progress row (not completed), stats, commit; then line 357
V2Flush ==
    /\ v2.pc = "flush"
    /\ db' = save_stats(save_tld_progress(db, V2Tld, stats.total_urls,
                                          v2.domains_saved, FALSE, v2.last_url), stats)
    /\ durable' = db'
    /\ domains_since_save' = 0
    /\ v2' = [v2 EXCEPT !.batch_domains = 0, !.pc = AfterAccept(v2.domains_saved)]
    /\ hist' = [hist EXCEPT !.progress_writes = @ + 1]
    /\ UNCHANGED <<calls, liveVars, otherVars, diskVars, v2_input, v2_limit, run, global_seen, stats>>

\* the listing is exhausted: the for loop ends and line 360 breaks
V2Exhausted ==
    /\ v2.pc = "iter"
    /\ v2.pos = Len(v2_input)
    /\ v2' = [v2 EXCEPT !.pc = "finish"]
    /\ UNCHANGED <<storeVars, calls, liveVars, otherVars, diskVars, v2_input, v2_limit, run, global_seen, stats, hist>>

\* lines 362-384: the iterator raises a connection error. At the ceiling the
\* while loop is left; below it a new iterator is made, which starts the
\* listing again, unless making it raises too (the outer handler, line 395)
V2ConnError ==
    /\ v2.pc = "iter"
    /\ ErrorAllowed(v2.consecutive_errors)
    /\ LET n == v2.consecutive_errors + 1
           bursts == ErrorBursts(v2.consecutive_errors)
       IN  IF n >= MaxConsecutive
           THEN /\ v2' = [v2 EXCEPT !.consecutive_errors = n, !.pc = "finish"]
                /\ hist' = [hist EXCEPT !.errors = bursts, !.fatal = TRUE]
           ELSE /\ \E reconnected \in BOOLEAN :
                     v2' = [v2 EXCEPT !.consecutive_errors = n,
                                      !.pos = IF reconnected THEN 0 ELSE @,
                                      !.pc = IF reconnected THEN "iter" ELSE "outer_except"]
                /\ hist' = [hist EXCEPT !.errors = bursts]
    /\ UNCHANGED <<storeVars, calls, liveVars, otherVars, diskVars, v2_input, v2_limit, run, global_seen, stats>>

\* lines 375-387: any other exception while iterating ends the scan
V2UnexpectedError ==
    /\ v2.pc = "iter"
    /\ ErrorAllowed(v2.consecutive_errors)
    /\ v2' = [v2 EXCEPT !.pc = "finish"]
    /\ hist' = [hist EXCEPT !.errors = ErrorBursts(v2.consecutive_errors), !.fatal = TRUE]
    /\ UNCHANGED <<storeVars, calls, liveVars, otherVars, diskVars, v2_input, v2_limit, run, global_seen, stats>>

\* lines 330-347: checkpoint_mgr.save_domain raises (sqlite3.Error) for a new
\* domain, after global_seen.add, stats.add_domain and domains_saved += 1.
\* The error is no connection error, so line 386 prints it and breaks. If the
\* store works again the lines after the loop run; if it keeps raising, they
\* and the outer handler and main's save_stats raise and the process ends
\* with what was committed
V2StoreError ==
    /\ v2.pc = "iter"
    /\ v2.pos < Len(v2_input)
    /\ hist.errors < MaxErrorBursts
    /\ LET obj == v2_input[v2.pos + 1]
           url == obj.url
           domain == extract_domain(url)
       IN  /\ obj.page <= ArgsPages
           /\ domain # None
           /\ EndsWithTld(domain, V2Tld)
           /\ ~HasBadPattern(domain)
           /\ domain \notin global_seen
           /\ domain \notin DOMAIN v2.local_seen
           /\ global_seen' = global_seen \cup {domain}
           /\ stats' = [stats EXCEPT
                          !.total_urls = @ + 1,
                          !.total_domains = @ + 1,
                          !.ecommerce_count = @ + BoolToInt(is_ecommerce(url))]
           /\ hist' = [hist EXCEPT !.scanned = @ + 1,
                                   !.accepted = @ \cup {domain},
                                   !.errors = @ + 1,
                                   !.store_failed = TRUE]
           /\ \E recovers \in BOOLEAN :
                IF recovers
                THEN /\ v2' = [v2 EXCEPT
                                 !.pos = @ + 1,
                                 !.consecutive_errors = 0,
                                 !.last_url = url,
                                 !.local_seen = [d \in DOMAIN @ \cup {domain} |->
                                                   IF d = domain THEN 1 ELSE @[d]],
                                 !.domains_saved = @ + 1,
                                 !.pc = "finish"]
                     /\ UNCHANGED storeVars
                ELSE /\ v2' = [v2 EXCEPT !.pos = @ + 1, !.pc = "done"]
                     /\ db' = durable
                     /\ UNCHANGED <<durable, domains_since_save>>
    /\ UNCHANGED <<calls, liveVars, otherVars, diskVars, v2_input, v2_limit, run>>

\* lines 389-393, reached on every way out of the while loop
V2Finish ==
    /\ v2.pc = "finish"
    /\ db' = save_stats(save_tld_progress(db, V2Tld, stats.total_urls,
                                          v2.domains_saved, TRUE, v2.last_url), stats)
    /\ durable' = db'
    /\ domains_since_save' = 0
    /\ v2' = [v2 EXCEPT !.pc = "returned"]
    /\ hist' = [hist EXCEPT !.progress_writes = @ + 1]
    /\ UNCHANGED <<calls, liveVars, otherVars, diskVars, v2_input, v2_limit, run, global_seen, stats>>

\* lines 395-399: the outer handler saves the stats and commits
V2OuterExcept ==
    /\ v2.pc = "outer_except"
    /\ db' = save_stats(db, stats)
    /\ durable' = db'
    /\ domains_since_save' = 0
    /\ v2' = [v2 EXCEPT !.pc = "returned"]
    /\ UNCHANGED <<calls, liveVars, otherVars, diskVars, v2_input, v2_limit, run, global_seen, stats, hist>>

\* main after the pool, lines 619-633: save_stats, export, close
V2MainEnd ==
    /\ v2.pc = "returned"
    /\ db' = save_stats(db, stats)
    /\ durable' = db'
    /\ v2' = [v2 EXCEPT !.pc = "done"]
    /\ UNCHANGED <<domains_since_save, calls, liveVars, otherVars, diskVars, v2_input, v2_limit, run, global_seen,
                   stats, hist>>

\* a new process on the same checkpoint file, as started with --resume
V2NewProcess(crashed) ==
    /\ run < MaxRuns
    /\ run' = run + 1
    /\ db' = durable
    /\ domains_since_save' = 0
    /\ v2' = V2Locals
    /\ global_seen' = {}
    /\ stats' = NewStats
    /\ hist' = [NewHist(durable) EXCEPT !.crashed = crashed \/ hist.crashed]
    /\ UNCHANGED <<durable, calls, liveVars, otherVars, diskVars, v2_input, v2_limit>>

\* the process dies: what was not committed is lost; it is started again
V2Crash ==
    /\ v2.pc \notin {"main", "done"}
    /\ V2NewProcess(TRUE)

\* the run has ended; the same command is run again
V2Rerun ==
    /\ v2.pc = "done"
    /\ V2NewProcess(FALSE)

\* the steps of a run in which the remote index raises nothing
V2Steps ==
    \/ V2Main
    \/ V2CollectStart
    \/ V2InitOk
    \/ V2NextItem
    \/ V2Flush
    \/ V2Exhausted
    \/ V2Finish
    \/ V2MainEnd
    \/ V2Rerun

\* runs that may be killed at any point and started again
NextResume ==
    \/ V2Steps
    \/ V2Crash

\* runs in which the remote index may raise
NextV2 ==
    \/ V2Steps
    \/ V2InitFail
    \/ V2ConnError
    \/ V2UnexpectedError
    \/ V2StoreError
    \/ V2OuterExcept

SpecV2 == InitV2 /\ [][NextV2]_vars

SpecResume == InitV2 /\ [][NextResume]_vars

(***************************************************************************)
(* Properties of crawler_v2.collect_tld                                    *)
(***************************************************************************)
\* the TLD's progress row says completed
RowCompleted(t) == V2Tld \in DOMAIN t.tld_progress /\ t.tld_progress[V2Tld].completed = 1

\* C6: in a run that starts on a checkpoint whose progress row for the TLD
\* has completed = 1, collect_tld returns without iterating the listing,
\* without accepting a domain and without writing the progress row.
C6_CompletedSkipped ==
    hist.completed_at_start =>
        /\ hist.scanned = 0
        /\ hist.accepted = {}
        /\ hist.progress_writes = 0
        /\ v2.pc \in {"main", "collect", "returned", "done"}
        /\ db.tld_progress = durable.tld_progress
        /\ db.domains = durable.domains

\* C6 witness: a later run on a completed TLD has run to its end
C6_Witness ==
    /\ run > 1
    /\ hist.completed_at_start
    /\ v2.pc = "done"
    /\ Len(v2_input) > 0

\* C7: when the scan of a TLD ended on a fatal error (the fifth consecutive
\* connection error, or an unexpected error) the TLD's progress row is left
\* with completed = 0.
C7_FatalLeavesIncomplete ==
    (hist.fatal /\ v2.pc \in {"returned", "done"}) => ~RowCompleted(db)

\* some occurrence of the domain in the listing has an e-commerce URL
SomeOccurrenceEcom(d) ==
    \E i \in 1..Len(v2_input) :
        /\ extract_domain(v2_input[i].url) = d
        /\ is_ecommerce(v2_input[i].url)

\* C32, as stated: whatever the order of a domain's occurrences, once the
\* whole listing was read the stored is_ecommerce flag is true exactly when
\* at least one occurrence has an e-commerce URL
C32_EcomFlagOrderIndependent ==
    (v2.pc = "done" /\ run = 1 /\ hist.errors = 0 /\ v2.pos = Len(v2_input)
        /\ \A i \in 1..Len(v2_input) : v2_input[i].page <= ArgsPages) =>
        \A d \in DOMAIN db.domains :
            db.domains[d].is_ecommerce = 1 <=> SomeOccurrenceEcom(d)

\* what the code stores: the flag of the first occurrence of the domain
C32_EcomFlagOfFirstOccurrence ==
    (v2.pc = "done" /\ run = 1 /\ hist.errors = 0 /\ v2.pos = Len(v2_input)
        /\ \A i \in 1..Len(v2_input) : v2_input[i].page <= ArgsPages) =>
        \A d \in DOMAIN db.domains :
            LET first == CHOOSE i \in 1..Len(v2_input) :
                            /\ extract_domain(v2_input[i].url) = d
                            /\ \A j \in 1..i - 1 : extract_domain(v2_input[j].url) # d
            IN  db.domains[d].is_ecommerce = BoolToInt(is_ecommerce(v2_input[first].url))

\* C28, as stated: after save_domain raised for an accepted domain the run
\* does not go on as if the domain were stored: the TLD is not marked
\* completed while the store lacks a domain the run accepted
C28_StoreFailureFatal ==
    (hist.store_failed /\ v2.pc \in {"returned", "done"} /\ RowCompleted(durable)) =>
        hist.accepted \subseteq get_all_domains(durable)

\* the domains a single uninterrupted run on a new checkpoint accepts from
\* the listing: the loop of lines 289-358 from item i on
RECURSIVE OnePass(_, _, _)
OnePass(i, acc, saved) ==
    IF i > Len(v2_input) THEN acc
    ELSE LET obj == v2_input[i]
             domain == extract_domain(obj.url)
         IN  IF obj.page > ArgsPages THEN acc
             ELSE IF \/ domain = None
                     \/ ~EndsWithTld(domain, V2Tld)
                     \/ HasBadPattern(domain)
                     \/ domain \in acc
             THEN OnePass(i + 1, acc, saved)
             ELSE IF saved + 1 >= v2_limit THEN acc \cup {domain}
             ELSE OnePass(i + 1, acc \cup {domain}, saved + 1)

\* C8: whenever a run ends, after any number of crashes and restarts on the
\* same checkpoint, the store holds the set of domains that one
\* uninterrupted run of the same listing and limit stores.
C8_ResumeEquivalence ==
    v2.pc = "done" => get_all_domains(durable) = OnePass(1, {}, 0)

(***************************************************************************)
(* crawler_disk.py: pool threads working through the chunks of one TLD     *)
(***************************************************************************)
DiskTld == "test"
\* the default of --limit
DefaultLimit == 100000
Workers == 1..NumWorkers

\* the lines a chunk file may hold: CDX records "surt timestamp json" filed
\* under the TLD's prefix, and a line that does not split into three parts
DiskUrls == {"http://a.test/", "http://www.a.test/cart", "http://b.test:8080/",
             "http://c.test/", "http://d.test/", "http://example.test/", ""}
DiskLines ==
    [parts : {3}, status : {"200"}, mime : {"text/html"}, url : DiskUrls]
    \cup [parts : {3}, status : {"404"}, mime : {"text/html"}, url : {"http://b.test:8080/"}]
    \cup [parts : {3}, status : {"200"}, mime : {"image/png"}, url : {"http://b.test:8080/"}]
    \cup [parts : {1}, status : {""}, mime : {""}, url : {""}]

\* extract_domain_from_url(url): host without "www." and without the port
extract_domain_from_url(url) ==
    CASE url = "http://a.test/" -> "a.test"
      [] url = "http://www.a.test/cart" -> "a.test"
      [] url = "http://b.test:8080/" -> "b.test"
      [] url = "http://c.test/" -> "c.test"
      [] url = "http://d.test/" -> "d.test"
      [] url = "http://example.test/" -> "example.test"
      [] OTHER -> None

\* any(b in domain for b in BAD_PATTERNS): 'example.' is a bad pattern
DiskBadPattern(domain) == domain = "example.test"

\* any(k in page_url.lower() for k in ECOMMERCE_KW): 'cart' is a keyword
DiskEcom(url) == url = "http://www.a.test/cart"

\* the filters of a line ahead of the gate (status, mime, domain, patterns):
\* the domain the line carries to the gate, or None when the line is dropped
LineDomain(line) ==
    IF line.parts < 3 THEN None
    ELSE IF line.status # "200" THEN None
    ELSE IF line.mime # "text/html" THEN None
    ELSE IF extract_domain_from_url(line.url) = None THEN None
    ELSE IF DiskBadPattern(extract_domain_from_url(line.url)) THEN None
    ELSE extract_domain_from_url(line.url)

GateAlwaysPasses(s, domain) == TRUE
\* the test of the gate: "if domain in seen: continue"
GatePasses(s, domain) == domain \notin s

RemoveSkipped(fs, chunk_path) == fs
\* os.remove(chunk_path)
Remove(fs, chunk_path) == fs \ {chunk_path}

\* Stats() of crawler_disk with domains_by_tld[t] = 0
NewDiskStats == [total_urls |-> 0, total_domains |-> 0, ecommerce_count |-> 0,
                 skipped |-> 0, domains_by_tld |-> 0, chunks_done |-> 0]

\* Stats.add(tld, ecom)
StatsAdd(st, ecom) ==
    [st EXCEPT !.total_domains = @ + 1,
               !.domains_by_tld = @ + 1,
               !.ecommerce_count = @ + BoolToInt(ecom)]

\* the columns save_stats writes
StatsRow(st) == [total_urls |-> st.total_urls, total_domains |-> st.total_domains,
                 ecommerce_count |-> st.ecommerce_count, skipped |-> st.skipped,
                 domains_by_tld |-> st.domains_by_tld]

\* load_stats(stats) on a Stats object of crawler_disk
DiskLoadStats(tables, st) ==
    IF tables.stats = NoRow THEN st
    ELSE [st EXCEPT !.total_urls = tables.stats.total_urls,
                    !.total_domains = tables.stats.total_domains,
                    !.ecommerce_count = tables.stats.ecommerce_count,
                    !.skipped = tables.stats.skipped,
                    !.domains_by_tld = tables.stats.domains_by_tld]

\* "for item in batch: checkpoint.save_domain(*item)"
RECURSIVE SaveBatch(_, _)
SaveBatch(rows, batch) ==
    IF batch = <<>> THEN rows
    ELSE SaveBatch(save_domain(rows, batch[1].domain, DiskTld, batch[1].ecom, "", 1),
                   Tail(batch))

\* the locals of a pool thread that has no task
IdleTask == [pc |-> "idle", chunk_id |-> 0, lines_count |-> 0, batch |-> <<>>,
             line |-> NoRow, raised |-> FALSE]

DiskDomains == {"a.test", "b.test", "c.test", "d.test"}

\* history of a crawler_disk run, per domain: the pool threads that brought
\* the domain to the gate, the number of lines that reached the gate with it,
\* and the number of stats.add and save_domain calls made for it; the number
\* of tasks that raised; the accepted domains whose batch a raise dropped;
\* per chunk the number of download_to_disk calls, and the chunks for which
\* a call raised
NewDiskHist ==
    [gate_workers |-> [d \in DiskDomains |-> {}],
     occurrences |-> [d \in DiskDomains |-> 0],
     adds |-> [d \in DiskDomains |-> 0],
     saves |-> [d \in DiskDomains |-> 0],
     raised |-> 0,
     dropped |-> {},
     download_calls |-> [c \in 1..MaxChunks |-> 0],
     download_failed |-> {}]

\* a checkpoint file a previous run left: nothing; one domain and the stats
\* row that run saved at its end; one domain and no stats row (the run was
\* killed before its end)
SeedTables ==
    {EmptyTables,
     [EmptyTables EXCEPT
        !.domains = [d \in {"b.test"} |->
                        [tld |-> DiskTld, is_ecommerce |-> 0, cms |-> "", url_count |-> 1]],
        !.stats = [total_urls |-> 1, total_domains |-> 1, ecommerce_count |-> 0,
                   skipped |-> 0, domains_by_tld |-> 1]],
     [EmptyTables EXCEPT
        !.domains = [d \in {"b.test"} |->
                        [tld |-> DiskTld, is_ecommerce |-> 0, cms |-> "", url_count |-> 1]]]}

\* main up to the start of the pool: the cache directory is emptied, the
\* checkpoint is opened, seen is loaded from it and, when it is not empty,
\* the statistics too
Init ==
    /\ \E t \in SeedTables :
        /\ db = t
        /\ durable = t
        /\ seen = get_all_domains(t)
        /\ stats = IF get_all_domains(t) # {} THEN DiskLoadStats(t, NewDiskStats)
                   ELSE NewDiskStats
    /\ domains_since_save = 0
    /\ cache_size \in 1..MaxCacheSize
    /\ semaphore = cache_size
    /\ limit \in 1..MaxLimit \cup {DefaultLimit}
    /\ \E n \in 1..MaxChunks : chunks = [i \in 1..n |-> i]
    /\ task = [w \in Workers |-> IdleTask]
    /\ files = {}
    /\ live_queue = <<>>
    /\ phase = "pool"
    /\ hist = NewDiskHist
    /\ LiveOff
    /\ OtherOff
    /\ StoreHistoryOff
    /\ v2_input = <<>>
    /\ v2_limit = 0
    /\ run = 0
    /\ v2 = [pc |-> "off"]
    /\ global_seen = {}

\* the domains of a batch
BatchDomains(batch) == {batch[i].domain : i \in 1..Len(batch)}

\* hist after the save_domain calls of a batch
SavedHist(h, batch) ==
    [h EXCEPT !.saves = [d \in DiskDomains |->
                            @[d] + Cardinality({i \in 1..Len(batch) : batch[i].domain = d})]]

\* a pool thread takes the next submitted future: worker(chunk_id) starts
TakeTask(w) ==
    /\ phase = "pool"
    /\ task[w].pc = "idle"
    /\ chunks # <<>>
    /\ task' = [task EXCEPT ![w] = [IdleTask EXCEPT !.pc = "acquire",
                                                    !.chunk_id = Head(chunks)]]
    /\ chunks' = Tail(chunks)
    /\ UNCHANGED <<storeVars, calls, liveVars, otherVars, v2_input, v2_limit, run, v2, global_seen, stats, hist,
                   phase, cache_size, limit, semaphore, files, seen, live_queue>>

\* "with semaphore:" entered
Acquire(w) ==
    /\ task[w].pc = "acquire"
    /\ semaphore > 0
    /\ semaphore' = semaphore - 1
    /\ task' = [task EXCEPT ![w].pc = "download"]
    /\ UNCHANGED <<storeVars, calls, liveVars, otherVars, v2_input, v2_limit, run, v2, global_seen, stats, hist,
                   phase, cache_size, limit, chunks, files, seen, live_queue>>

\* download_to_disk returns: the chunk file is on disk
DownloadOk(w) ==
    /\ task[w].pc = "download"
    /\ files' = files \cup {task[w].chunk_id}
    /\ task' = [task EXCEPT ![w].pc = "scan"]
    /\ hist' = [hist EXCEPT !.download_calls[task[w].chunk_id] = @ + 1]
    /\ UNCHANGED <<storeVars, calls, liveVars, otherVars, v2_input, v2_limit, run, v2, global_seen, stats,
                   phase, cache_size, limit, chunks, semaphore, seen, live_queue>>

\* download_to_disk raises: before the file is opened (raise_for_status) or
\* while it is being written (a partial file is on disk)
DownloadFail(w) ==
    /\ task[w].pc = "download"
    /\ \E partial \in BOOLEAN :
        files' = IF partial THEN files \cup {task[w].chunk_id} ELSE files
    /\ task' = [task EXCEPT ![w].pc = "finally", ![w].raised = TRUE]
    /\ hist' = [hist EXCEPT !.raised = @ + 1,
                            !.download_calls[task[w].chunk_id] = @ + 1,
                            !.download_failed = @ \cup {task[w].chunk_id}]
    /\ UNCHANGED <<storeVars, calls, liveVars, otherVars, v2_input, v2_limit, run, v2, global_seen, stats,
                   phase, cache_size, limit, chunks, semaphore, seen, live_queue>>

\* one line of the chunk up to the gate: the prefix and limit tests and the
\* filters; a line that passes them waits for the lock
ReadLineOf(w, line) ==
    task' = [task EXCEPT
                ![w].lines_count = @ + 1,
                ![w].line = IF stats.domains_by_tld >= limit \/ LineDomain(line) = None
                            THEN NoRow ELSE line,
                ![w].pc = IF stats.domains_by_tld >= limit \/ LineDomain(line) = None
                          THEN "scan" ELSE "gate"]

ReadLine(w) ==
    /\ task[w].pc = "scan"
    /\ task[w].lines_count < MaxLines
    /\ \E line \in DiskLines : ReadLineOf(w, line)
    /\ UNCHANGED <<storeVars, calls, liveVars, otherVars, v2_input, v2_limit, run, v2, global_seen, stats, hist,
                   phase, cache_size, limit, chunks, semaphore, files, seen, live_queue>>

\* "with lock: if domain in seen: continue; seen.add(domain)" and, for the
\* thread that passes, stats.add, live_queue.put and batch.append
Gate(w) ==
    /\ task[w].pc = "gate"
    /\ LET domain == LineDomain(task[w].line)
           ecom == DiskEcom(task[w].line.url)
           batch == Append(task[w].batch, [domain |-> domain, ecom |-> ecom])
           h == [hist EXCEPT !.gate_workers[domain] = @ \cup {w},
                             !.occurrences[domain] = @ + 1]
       IN  IF GatePasses(seen, domain)
           THEN /\ seen' = seen \cup {domain}
                /\ stats' = StatsAdd(stats, ecom)
                /\ live_queue' = Append(live_queue, domain)
                /\ task' = [task EXCEPT
                              ![w].batch = batch,
                              ![w].line = NoRow,
                              ![w].pc = IF Len(batch) >= DiskBatchSize THEN "flush" ELSE "scan"]
                /\ hist' = [h EXCEPT !.adds[domain] = @ + 1]
           ELSE /\ task' = [task EXCEPT ![w].line = NoRow, ![w].pc = "scan"]
                /\ hist' = h
                /\ UNCHANGED <<seen, stats, live_queue>>
    /\ UNCHANGED <<storeVars, calls, liveVars, otherVars, v2_input, v2_limit, run, v2, global_seen,
                   phase, cache_size, limit, chunks, semaphore, files>>

\* the batch is full: save_domain for each item, then checkpoint.commit()
Flush(w) ==
    /\ task[w].pc = "flush"
    /\ db' = [db EXCEPT !.domains = SaveBatch(@, task[w].batch)]
    /\ durable' = db'
    /\ domains_since_save' = 0
    /\ hist' = SavedHist(hist, task[w].batch)
    /\ task' = [task EXCEPT ![w].batch = <<>>, ![w].pc = "scan"]
    /\ UNCHANGED <<calls, liveVars, otherVars, v2_input, v2_limit, run, v2, global_seen, stats,
                   phase, cache_size, limit, chunks, semaphore, files, seen, live_queue>>

\* the file is exhausted: stats.add_lines, then the rest of the batch is
\* saved and committed
EndOfFile(w) ==
    /\ task[w].pc = "scan"
    /\ stats' = [stats EXCEPT !.total_urls = @ + task[w].lines_count]
    /\ IF task[w].batch # <<>>
       THEN /\ db' = [db EXCEPT !.domains = SaveBatch(@, task[w].batch)]
            /\ durable' = db'
            /\ domains_since_save' = 0
            /\ hist' = SavedHist(hist, task[w].batch)
       ELSE UNCHANGED <<storeVars, hist>>
    /\ task' = [task EXCEPT ![w].batch = <<>>, ![w].pc = "finally"]
    /\ UNCHANGED <<calls, liveVars, otherVars, v2_input, v2_limit, run, v2, global_seen,
                   phase, cache_size, limit, chunks, semaphore, files, seen, live_queue>>

\* "for line in f" raises (a truncated or corrupt gzip stream): the loop is
\* outside the try, so process_chunk_from_disk raises and its batch is gone
ReadError(w) ==
    /\ task[w].pc = "scan"
    /\ hist' = [hist EXCEPT !.raised = @ + 1,
                            !.dropped = @ \cup BatchDomains(task[w].batch)]
    /\ task' = [task EXCEPT ![w].batch = <<>>, ![w].pc = "finally", ![w].raised = TRUE]
    /\ UNCHANGED <<storeVars, calls, liveVars, otherVars, v2_input, v2_limit, run, v2, global_seen, stats,
                   phase, cache_size, limit, chunks, semaphore, files, seen, live_queue>>

\* the finally block of process_chunk: the chunk file is removed if it exists
Finally(w) ==
    /\ task[w].pc = "finally"
    /\ files' = IF task[w].chunk_id \in files THEN Remove(files, task[w].chunk_id)
                ELSE files
    /\ task' = [task EXCEPT ![w].pc = "release"]
    /\ UNCHANGED <<storeVars, calls, liveVars, otherVars, v2_input, v2_limit, run, v2, global_seen, stats, hist,
                   phase, cache_size, limit, chunks, semaphore, seen, live_queue>>

\* process_chunk ends (chunks_done is counted unless it raised) and the
\* "with semaphore:" block is left
Release(w) ==
    /\ task[w].pc = "release"
    /\ stats' = IF task[w].raised THEN stats
                ELSE [stats EXCEPT !.chunks_done = @ + 1]
    /\ semaphore' = semaphore + 1
    /\ task' = [task EXCEPT ![w] = IdleTask]
    /\ UNCHANGED <<storeVars, calls, liveVars, otherVars, v2_input, v2_limit, run, v2, global_seen, hist,
                   phase, cache_size, limit, chunks, files, seen, live_queue>>

\* main after the pool: the cache directory is emptied, the statistics are
\* saved and the checkpoint is closed
MainEnd ==
    /\ phase = "pool"
    /\ chunks = <<>>
    /\ \A w \in Workers : task[w].pc = "idle"
    /\ files' = {}
    /\ db' = save_stats(db, StatsRow(stats))
    /\ durable' = db'
    /\ phase' = "done"
    /\ UNCHANGED <<domains_since_save, calls, liveVars, otherVars, v2_input, v2_limit, run, v2, global_seen,
                   stats, hist, cache_size, limit, chunks, task, semaphore, seen, live_queue>>

Next ==
    \/ \E w \in Workers : TakeTask(w)
    \/ \E w \in Workers : Acquire(w)
    \/ \E w \in Workers : DownloadOk(w)
    \/ \E w \in Workers : DownloadFail(w)
    \/ \E w \in Workers : ReadLine(w)
    \/ \E w \in Workers : Gate(w)
    \/ \E w \in Workers : Flush(w)
    \/ \E w \in Workers : EndOfFile(w)
    \/ \E w \in Workers : ReadError(w)
    \/ \E w \in Workers : Finally(w)
    \/ \E w \in Workers : Release(w)
    \/ MainEnd

Spec == Init /\ [][Next]_vars

(***************************************************************************)
(* Properties of the chunk pipeline                                        *)
(***************************************************************************)
\* number of times a domain was put on live_queue
Puts(d) == Cardinality({i \in 1..Len(live_queue) : live_queue[i] = d})

C2_UrlCountIsOccurrences ==
    (phase = "done" /\ hist.raised = 0) =>
        \A d \in DiskDomains :
            hist.adds[d] > 0 =>
                /\ d \in DOMAIN durable.domains
                /\ durable.domains[d].url_count = hist.occurrences[d]

\* the domains accepted in this run that the committed tables do not hold
AcceptedUncommitted ==
    {d \in DiskDomains : hist.adds[d] > 0 /\ d \notin DOMAIN durable.domains}

\* C9: at every moment the number of accepted domains not yet committed is
\* at most the store's item threshold save_interval_domains.
C9_UncommittedWithinThreshold ==
    Cardinality(AcceptedUncommitted) <= save_interval_domains

\* no chunk task is running: every pool thread is between two tasks
NoTaskRunning == task # <<>> /\ \A w \in Workers : task[w].pc = "idle"

\* C37: whenever no chunk task is running, every domain in the dedup
\* registry has a row in the checkpoint store, also after a task that ended
\* with an exception while reading its chunk.
C37_RegistryStoredWhenIdle ==
    NoTaskRunning => seen \subseteq DOMAIN db.domains

\* C37, for the tasks that end normally: as long as no task has raised while
\* reading, the registry is stored whenever no task is running
C37_StoredUnlessReadRaised ==
    (NoTaskRunning /\ hist.dropped = {}) => seen \subseteq DOMAIN db.domains

LiveWorkers == 1..NumLiveWorkers

\* the programs with this verification stage: crawler_disk.py guards
\* f.result() and catches KeyboardInterrupt around the pool, crawler.py does
\* neither
Variants == {"crawler_disk", "crawler"}

\* exit_status while the process has not ended
StillRunning == -1

\* exit status of an uncaught exception
UNCAUGHT_STATUS == 1


\* the domains the chunks of the run may carry
LiveDomains == {"a.test", "b.test"}

\* the platforms check_domain may report ('' when it detects none)
Platforms == {"", "Shopify"}

\* queue.Queue(): maxsize = 0
QueueMaxsize == 0

\* Queue.full(): a maxsize <= 0 means the queue never is
QueueFull(q) == QueueMaxsize > 0 /\ Len(q) >= QueueMaxsize

\* exit status of an uncaught KeyboardInterrupt
SIGINT_STATUS == 130

\* the domains (not the None sentinels) waiting on the queue
QueuedDomains(q) == {q[i] : i \in {j \in 1..Len(q) : q[j] # None}}

SentinelsOmitted(n) == <<>>
\* "for _ in live_workers: live_queue.put(None)"
Sentinels(n) == [i \in 1..n |-> None]

\* Stats() as the verification stage uses it
NewLiveStats == [total_domains |-> 0, live_checked |-> 0, live_detected |-> 0]

\* Stats.add_live_check(platform)
add_live_check(st, platform) ==
    [st EXCEPT !.live_checked = @ + 1,
               !.live_detected = @ + (IF platform # None THEN 1 ELSE 0)]

\* a verification thread before it is started
NewLiveWorker == [pc |-> "unstarted", domain |-> None, platform |-> ""]

\* history of a run: whether Ctrl-C was received, the domains put on the
\* queue and the domains taken from it (both in order), the number of
\* add_live_check calls per domain, the sentinels pushed, whether a task
\* raised
NewLiveHist ==
    [cancelled |-> FALSE,
     enqueued |-> <<>>,
     dequeued |-> <<>>,
     checks |-> [d \in LiveDomains |-> 0],
     sentinels |-> 0,
     raised |-> FALSE]

\* main up to the start-up sleep: checkpoint opened on a new file, queue and
\* result file not yet created, futures not yet submitted
InitLive ==
    /\ db = EmptyTables
    /\ durable = EmptyTables
    /\ domains_since_save = 0
    /\ seen = {}
    /\ stats = NewLiveStats
    /\ hist = NewLiveHist
    /\ phase = "start"
    /\ DETECTOR_AVAILABLE \in BOOLEAN
    /\ variant \in Variants
    /\ OtherOff
    /\ \E n \in 1..MaxChunks : chunks = [i \in 1..n |-> i]
    /\ task = [w \in Workers |-> [pc |-> "idle"]]
    /\ live_queue = <<>>
    /\ unfinished_tasks = 0
    /\ crawl_done = FALSE
    /\ live_worker = [w \in LiveWorkers |-> NewLiveWorker]
    /\ live_csv = [open |-> FALSE, rows |-> 0]
    /\ exit_status = StillRunning
    /\ cache_size = MaxCacheSize
    /\ semaphore = MaxCacheSize
    /\ limit = DefaultLimit
    /\ files = {}
    /\ StoreHistoryOff
    /\ v2_input = <<>>
    /\ v2_limit = 0
    /\ run = 0
    /\ v2 = [pc |-> "off"]
    /\ global_seen = {}

\* lines 401-452: without the detector module main exits with status 1;
\* else the queue and the result file are created, the verification threads
\* are started and the pool is entered
LiveStartup ==
    /\ phase = "start"
    /\ IF ~DETECTOR_AVAILABLE
       THEN /\ phase' = "exited"
            /\ exit_status' = 1
            /\ UNCHANGED <<live_worker, live_csv>>
       ELSE /\ phase' = "pool"
            /\ live_worker' = [w \in LiveWorkers |-> [NewLiveWorker EXCEPT !.pc = "get"]]
            /\ live_csv' = [open |-> TRUE, rows |-> 0]
            /\ UNCHANGED exit_status
    /\ UNCHANGED <<storeVars, calls, v2_input, v2_limit, run, v2, global_seen, stats, hist,
                   cache_size, limit, chunks, task, semaphore, files, seen, live_queue,
                   unfinished_tasks, crawl_done, DETECTOR_AVAILABLE, variant, otherVars>>

\* the pool is running: from its creation until the process is gone (the
\* pool threads are joined at interpreter exit and work off every future
\* that was submitted)
PoolAlive == phase \notin {"start", "exited"}

\* a pool thread starts the next submitted future
PoolTake(w) ==
    /\ PoolAlive
    /\ task[w].pc = "idle"
    /\ chunks # <<>>
    /\ task' = [task EXCEPT ![w].pc = "run"]
    /\ chunks' = Tail(chunks)
    /\ UNCHANGED <<storeVars, calls, v2_input, v2_limit, run, v2, global_seen, stats, hist,
                   phase, cache_size, limit, semaphore, files, seen, live_queue, liveVars, otherVars>>

\* lines 205-217: a domain passes the gate, is counted and is put on the queue
PoolPut(w) ==
    /\ PoolAlive
    /\ task[w].pc = "run"
    /\ ~QueueFull(live_queue)
    /\ \E domain \in LiveDomains \ seen :
        /\ seen' = seen \cup {domain}
        /\ live_queue' = Append(live_queue, domain)
        /\ hist' = [hist EXCEPT !.enqueued = Append(@, domain)]
    /\ stats' = [stats EXCEPT !.total_domains = @ + 1]
    /\ unfinished_tasks' = unfinished_tasks + 1
    /\ UNCHANGED <<storeVars, calls, v2_input, v2_limit, run, v2, global_seen,
                   phase, cache_size, limit, chunks, task, semaphore, files,
                   crawl_done, live_worker, live_csv, exit_status, DETECTOR_AVAILABLE, variant, otherVars>>

\* the task raises.  crawler_disk.py: line 473 prints the exception of the
\* future.  crawler.py: f.result() (line 746) raises it in main, the with
\* block waits for the pool and main ends with the traceback.
PoolRaise(w) ==
    /\ PoolAlive
    /\ task[w].pc = "run"
    /\ task' = [task EXCEPT ![w].pc = "idle"]
    /\ hist' = [hist EXCEPT !.raised = TRUE]
    /\ IF variant = "crawler" /\ phase = "pool"
       THEN /\ phase' = "exiting"
            /\ exit_status' = UNCAUGHT_STATUS
       ELSE UNCHANGED <<phase, exit_status>>
    /\ UNCHANGED <<storeVars, calls, v2_input, v2_limit, run, v2, global_seen, stats,
                   cache_size, limit, chunks, semaphore, files, seen, live_queue,
                   unfinished_tasks, crawl_done, live_worker, live_csv,
                   DETECTOR_AVAILABLE, variant, otherVars>>

\* the task returns
PoolFinish(w) ==
    /\ PoolAlive
    /\ task[w].pc = "run"
    /\ task' = [task EXCEPT ![w].pc = "idle"]
    /\ UNCHANGED <<storeVars, calls, v2_input, v2_limit, run, v2, global_seen, stats, hist,
                   phase, cache_size, limit, chunks, semaphore, files, seen, live_queue,
                   liveVars, otherVars>>

\* every future is done
PoolDrained == chunks = <<>> /\ \A w \in Workers : task[w].pc = "idle"

\* lines 468-480: as_completed is exhausted and the with block is left (also
\* after a Ctrl-C, once shutdown(wait=True) has returned); crawl_done.set()
LivePoolDone ==
    /\ phase \in {"pool", "shutdown"}
    /\ PoolDrained
    /\ crawl_done' = TRUE
    /\ phase' = "join"
    /\ UNCHANGED <<storeVars, calls, v2_input, v2_limit, run, v2, global_seen, stats, hist,
                   cache_size, limit, chunks, task, semaphore, files, seen, live_queue,
                   unfinished_tasks, live_worker, live_csv, exit_status, DETECTOR_AVAILABLE, variant, otherVars>>

\* Ctrl-C: KeyboardInterrupt in the main thread.  Inside the try of
\* crawler_disk.py lines 467-478 it first ends as_completed and leaves main
\* waiting in the pool's shutdown(wait=True); a second one ends that wait and
\* is caught by line 477 while futures still run.  Anywhere else, and in
\* crawler.py everywhere, it is not caught: main ends there and the process
\* exits with the status of the signal (before the pool exists, at once).
LiveInterrupt ==
    /\ phase \in {"start", "pool", "shutdown", "join", "sentinels", "worker_join", "final"}
    /\ hist' = [hist EXCEPT !.cancelled = TRUE]
    /\ CASE phase = "pool" /\ variant = "crawler_disk" ->
              /\ phase' = "shutdown"
              /\ UNCHANGED <<crawl_done, exit_status>>
         [] phase = "shutdown" ->
              /\ phase' = "join"
              /\ crawl_done' = TRUE
              /\ UNCHANGED exit_status
         [] phase = "start" ->
              /\ phase' = "exited"
              /\ exit_status' = SIGINT_STATUS
              /\ UNCHANGED crawl_done
         [] OTHER ->
              /\ phase' = "exiting"
              /\ exit_status' = SIGINT_STATUS
              /\ UNCHANGED crawl_done
    /\ UNCHANGED <<storeVars, calls, v2_input, v2_limit, run, v2, global_seen, stats,
                   cache_size, limit, chunks, task, semaphore, files, seen, live_queue,
                   unfinished_tasks, live_worker, live_csv, DETECTOR_AVAILABLE, variant, otherVars>>

\* line 483: live_queue.join() returns once every put has had its task_done
LiveJoinReturns ==
    /\ phase = "join"
    /\ unfinished_tasks = 0
    /\ phase' = "sentinels"
    /\ UNCHANGED <<storeVars, calls, v2_input, v2_limit, run, v2, global_seen, stats, hist,
                   cache_size, limit, chunks, task, semaphore, files, seen, live_queue,
                   liveVars, otherVars>>

\* lines 484-485: one None per verification thread
LivePutSentinels ==
    /\ phase = "sentinels"
    /\ live_queue' = live_queue \o Sentinels(NumLiveWorkers)
    /\ unfinished_tasks' = unfinished_tasks + Len(Sentinels(NumLiveWorkers))
    /\ hist' = [hist EXCEPT !.sentinels = @ + Len(Sentinels(NumLiveWorkers))]
    /\ phase' = "worker_join"
    /\ UNCHANGED <<storeVars, calls, v2_input, v2_limit, run, v2, global_seen, stats,
                   cache_size, limit, chunks, task, semaphore, files, seen,
                   crawl_done, live_worker, live_csv, exit_status, DETECTOR_AVAILABLE, variant, otherVars>>

\* lines 486-489: t.join(timeout=5) for every thread returns, at the latest
\* when the timeout runs out, and the result file is closed
LiveWorkerJoin ==
    /\ phase = "worker_join"
    /\ live_csv' = [live_csv EXCEPT !.open = FALSE]
    /\ phase' = "final"
    /\ UNCHANGED <<storeVars, calls, v2_input, v2_limit, run, v2, global_seen, stats, hist,
                   cache_size, limit, chunks, task, semaphore, files, seen, live_queue,
                   unfinished_tasks, crawl_done, live_worker, exit_status,
                   DETECTOR_AVAILABLE, variant, otherVars>>

\* lines 491-507: save_stats, export, close; main returns (crawler.py has no
\* checkpoint and only closes its files)
LiveFinal ==
    /\ phase = "final"
    /\ db' = IF variant = "crawler_disk" THEN save_stats(db, stats) ELSE db
    /\ durable' = db'
    /\ exit_status' = 0
    /\ phase' = "exiting"
    /\ UNCHANGED <<domains_since_save, calls, v2_input, v2_limit, run, v2, global_seen,
                   stats, hist, cache_size, limit, chunks, task, semaphore, files, seen,
                   live_queue, unfinished_tasks, crawl_done, live_worker, live_csv,
                   DETECTOR_AVAILABLE, variant, otherVars>>

\* the interpreter exits once the pool threads have ended; the verification
\* threads are daemon threads and end with it
ProcessExit ==
    /\ phase = "exiting"
    /\ PoolDrained
    /\ phase' = "exited"
    /\ UNCHANGED <<storeVars, calls, v2_input, v2_limit, run, v2, global_seen, stats, hist,
                   cache_size, limit, chunks, task, semaphore, files, seen, live_queue,
                   liveVars, otherVars>>

\* line 418: get(timeout=1) returns the head of the queue; a None ends the
\* thread (lines 419-420)
LiveGet(w) ==
    /\ phase # "exited"
    /\ live_worker[w].pc = "get"
    /\ live_queue # <<>>
    /\ live_queue' = Tail(live_queue)
    /\ IF Head(live_queue) = None
       THEN /\ live_worker' = [live_worker EXCEPT ![w].pc = "exited"]
            /\ UNCHANGED hist
       ELSE /\ live_worker' = [live_worker EXCEPT ![w].pc = "check",
                                                   ![w].domain = Head(live_queue)]
            /\ hist' = [hist EXCEPT !.dequeued = Append(@, Head(live_queue))]
    /\ UNCHANGED <<storeVars, calls, v2_input, v2_limit, run, v2, global_seen, stats,
                   phase, cache_size, limit, chunks, task, semaphore, files, seen,
                   unfinished_tasks, crawl_done, live_csv, exit_status,
                   DETECTOR_AVAILABLE, variant, otherVars>>

\* line 418: get(timeout=1) raises queue.Empty
LiveTimeout(w) ==
    /\ phase # "exited"
    /\ live_worker[w].pc = "get"
    /\ live_queue = <<>>
    /\ live_worker' = [live_worker EXCEPT ![w].pc = "empty"]
    /\ UNCHANGED <<storeVars, calls, v2_input, v2_limit, run, v2, global_seen, stats, hist,
                   diskVars, unfinished_tasks, crawl_done, live_csv, exit_status,
                   DETECTOR_AVAILABLE, variant, otherVars>>

\* lines 439-441: the thread ends when the flag is set and the queue is empty
LiveAfterEmpty(w) ==
    /\ phase # "exited"
    /\ live_worker[w].pc = "empty"
    /\ live_worker' = [live_worker EXCEPT
           ![w].pc = IF crawl_done /\ live_queue = <<>> THEN "exited" ELSE "get"]
    /\ UNCHANGED <<storeVars, calls, v2_input, v2_limit, run, v2, global_seen, stats, hist,
                   diskVars, unfinished_tasks, crawl_done, live_csv, exit_status,
                   DETECTOR_AVAILABLE, variant, otherVars>>

\* lines 423-428: check_domain returns and the check is counted
LiveCheck(w) ==
    /\ phase # "exited"
    /\ live_worker[w].pc = "check"
    /\ \E platform \in Platforms :
        /\ stats' = add_live_check(stats, IF platform # "" THEN platform ELSE None)
        /\ live_worker' = [live_worker EXCEPT
               ![w].platform = platform,
               ![w].pc = IF platform # "" THEN "write" ELSE "task_done"]
    /\ hist' = [hist EXCEPT !.checks[live_worker[w].domain] = @ + 1]
    /\ UNCHANGED <<storeVars, calls, v2_input, v2_limit, run, v2, global_seen,
                   diskVars, unfinished_tasks, crawl_done, live_csv, exit_status,
                   DETECTOR_AVAILABLE, variant, otherVars>>

\* lines 428-433: the row is written and flushed; when that raises (the file
\* was closed by main, or the write fails) the handler counts the check again
LiveWrite(w) ==
    /\ phase # "exited"
    /\ live_worker[w].pc = "write"
    /\ \E ok \in (IF live_csv.open THEN BOOLEAN ELSE {FALSE}) :
        IF ok
        THEN /\ live_csv' = [live_csv EXCEPT !.rows = @ + 1]
             /\ UNCHANGED <<stats, hist>>
        ELSE /\ stats' = add_live_check(stats, None)
             /\ hist' = [hist EXCEPT !.checks[live_worker[w].domain] = @ + 1]
             /\ UNCHANGED live_csv
    /\ live_worker' = [live_worker EXCEPT ![w].pc = "task_done"]
    /\ UNCHANGED <<storeVars, calls, v2_input, v2_limit, run, v2, global_seen,
                   diskVars, unfinished_tasks, crawl_done, exit_status,
                   DETECTOR_AVAILABLE, variant, otherVars>>

\* lines 435-438: live_queue.task_done()
LiveTaskDone(w) ==
    /\ phase # "exited"
    /\ live_worker[w].pc = "task_done"
    /\ unfinished_tasks' = unfinished_tasks - 1
    /\ live_worker' = [live_worker EXCEPT ![w].pc = "get", ![w].domain = None,
                                          ![w].platform = ""]
    /\ UNCHANGED <<storeVars, calls, v2_input, v2_limit, run, v2, global_seen, stats, hist,
                   diskVars, crawl_done, live_csv, exit_status,
                   DETECTOR_AVAILABLE, variant, otherVars>>

\* the steps of the producer pool, of the verification threads and of main
PoolStep(w) == PoolTake(w) \/ PoolPut(w) \/ PoolRaise(w) \/ PoolFinish(w)
LiveWorkerStep(w) ==
    \/ LiveGet(w)
    \/ LiveTimeout(w)
    \/ LiveAfterEmpty(w)
    \/ LiveCheck(w)
    \/ LiveWrite(w)
    \/ LiveTaskDone(w)
LiveMainStep ==
    \/ LiveStartup
    \/ LivePoolDone
    \/ LiveJoinReturns
    \/ LivePutSentinels
    \/ LiveWorkerJoin
    \/ LiveFinal
    \/ ProcessExit

NextLive ==
    \/ LiveStartup
    \/ \E w \in Workers : PoolTake(w)
    \/ \E w \in Workers : PoolPut(w)
    \/ \E w \in Workers : PoolRaise(w)
    \/ \E w \in Workers : PoolFinish(w)
    \/ LivePoolDone
    \/ LiveInterrupt
    \/ LiveJoinReturns
    \/ LivePutSentinels
    \/ LiveWorkerJoin
    \/ LiveFinal
    \/ ProcessExit
    \/ \E w \in LiveWorkers : LiveGet(w)
    \/ \E w \in LiveWorkers : LiveTimeout(w)
    \/ \E w \in LiveWorkers : LiveAfterEmpty(w)
    \/ \E w \in LiveWorkers : LiveCheck(w)
    \/ \E w \in LiveWorkers : LiveWrite(w)
    \/ \E w \in LiveWorkers : LiveTaskDone(w)

SpecLive == InitLive /\ [][NextLive]_vars

\* fair scheduling: every thread that can take a step eventually takes one
\* (a task that can put a domain or end eventually ends); Ctrl-C is not owed
SpecLiveFair ==
    /\ SpecLive
    /\ WF_vars(LiveMainStep)
    /\ \A w \in Workers : WF_vars(PoolTake(w)) /\ WF_vars(PoolFinish(w))
    /\ \A w \in LiveWorkers : WF_vars(LiveWorkerStep(w))

(***************************************************************************)
(* The claims about the verification stage                                 *)
(***************************************************************************)
\* the domains put on the queue so far
Enqueued == {hist.enqueued[i] : i \in 1..Len(hist.enqueued)}

\* a verification thread ends in this step
LiveWorkerExits(w) == live_worker[w].pc # "exited" /\ live_worker'[w].pc = "exited"

\* a run that ends normally: no Ctrl-C, no task raised, main is past the
\* close of the result file
EndedNormally ==
    /\ phase \in {"final", "exiting", "exited"}
    /\ exit_status \in {StillRunning, 0}
    /\ ~hist.cancelled

\* C11: no verification thread ends while a domain that was put on the queue
\* still waits there, and on a run that ends normally every domain that was
\* put on the queue has been given to check_domain and counted by the time
\* the result file is closed.
C11_NoWorkerLeavesDomains ==
    [][/\ \A w \in LiveWorkers :
             LiveWorkerExits(w) => QueuedDomains(live_queue') = {}
       /\ EndedNormally' => \A d \in Enqueued' : hist'.checks[d] >= 1]_vars

\* the number of times domain d was taken from the queue
Dequeues(d) == Cardinality({i \in 1..Len(hist.dequeued) : hist.dequeued[i] = d})

\* C12: in every state of a run with the verification stage, also after
\* Ctrl-C and after a failed write of a result row, stats.live_checked is at
\* most the number of domains put on the queue, and every domain taken from
\* the queue has raised live_checked by no more than one (by exactly one once
\* its task_done is reached).
C12_CheckedWithinEnqueued ==
    /\ stats.live_checked <= Len(hist.enqueued)
    /\ \A d \in LiveDomains : hist.checks[d] <= Dequeues(d)
    /\ \A w \in LiveWorkers :
           live_worker[w].pc = "task_done" =>
               hist.checks[live_worker[w].domain] = Dequeues(live_worker[w].domain)

\* the producers have stopped: every submitted future is done
ProducersStopped == phase # "start" /\ PoolDrained

\* every verification thread has ended, by itself or with the process
LiveWorkersTerminated ==
    \/ phase = "exited"
    \/ \A w \in LiveWorkers : live_worker[w].pc = "exited"

\* main has left the producer pool of a run whose verification stage started
LeftPool ==
    /\ DETECTOR_AVAILABLE
    /\ phase \in {"join", "sentinels", "worker_join", "final", "exiting", "exited"}

\* C13, the termination alone
C13_WorkersTerminate == ProducersStopped ~> LiveWorkersTerminated

\* C13: under fair scheduling, with a check_domain that always returns,
\* every verification thread ends once the producers have stopped, also when
\* tasks raised: on every path out of the producer pool on which no Ctrl-C
\* arrived the done-flag is set and one sentinel per thread gets pushed.
C13_DrainOnEveryPath ==
    /\ C13_WorkersTerminate
    /\ [](LeftPool /\ ~hist.cancelled => crawl_done)
    /\ [](LeftPool /\ ~hist.cancelled /\ phase \in {"final", "exiting", "exited"}
            => hist.sentinels = NumLiveWorkers)

\* C14: when Ctrl-C arrived while domains are queued, main's wait for the
\* verification stage is bounded: main waiting at live_queue.join() can go on
\* whether or not the queued domains have been processed.
C14_BoundedDrain ==
    (hist.cancelled /\ phase = "join") => ENABLED LiveJoinReturns

\* the domains leave the queue in the order they were put on it
DequeuedInOrder ==
    /\ Len(hist.dequeued) <= Len(hist.enqueued)
    /\ \A i \in 1..Len(hist.dequeued) : hist.dequeued[i] = hist.enqueued[i]

\* C15: the queue is bounded: the number of domains waiting on it never
\* exceeds the capacity it was created with (a producer finding it full
\* waits), and the domains are taken in the order they were put.
C15_BoundedFifo ==
    /\ Cardinality({i \in 1..Len(live_queue) : live_queue[i] # None}) <= QueueMaxsize
    /\ DequeuedInOrder

\* C16: with --live-check every domain the pipeline accepts is put on the
\* verification queue exactly once.  Stated for crawler_v2.py, whose
\* collect_tld (lines 339-355, 404) is followed by no step that takes from
\* the queue in SpecV2: what the tasks have put is what the queue holds.
C16_AcceptedEnqueuedOnce ==
    \A d \in hist.accepted : Puts(d) = 1

\* the pool of a crawler_disk run has worked off every chunk and main has
\* not yet saved the statistics
DiskPoolDrained ==
    /\ phase = "pool"
    /\ chunks = <<>>
    /\ \A w \in Workers : task[w].pc = "idle"

\* the domains an earlier run left in the checkpoint
PersistedBefore == {d \in DOMAIN db.domains : hist.adds[d] = 0}

\* C17: delivery is at-least-once across an interruption: a domain that the
\* interrupted run accepted and persisted but did not get to check (the
\* checkpoint has its row and no statistics row, the run was killed before
\* its end) is put on the verification queue by the resumed run.
C17_ResumeDelivers ==
    (DiskPoolDrained /\ db.stats = NoRow) => \A d \in PersistedBefore : Puts(d) >= 1

\* a pool thread starts a task in this step
TaskStarts(w) == task[w].pc = "idle" /\ task'[w].pc = "run"

\* C18: once Ctrl-C has been received no task that had not started begins
\* (and so no domain is accepted by a task started after it).
C18_NoStartAfterCancel ==
    [][hist.cancelled => \A w \in Workers : ~TaskStarts(w)]_vars

\* the process has ended after a run that accepted domains
ExitedAfterWork == phase = "exited" /\ stats.total_domains > 0

\* checkpoint.save_stats was called and committed
StatsSaved == durable.stats # NoRow

\* C19: every cancelled run with a checkpoint store (crawler_disk.py; crawler.py
\* has none) saves the statistics and commits before the process exits.
C19_CancelSavesCheckpoint ==
    (ExitedAfterWork /\ hist.cancelled /\ variant = "crawler_disk") => StatsSaved

\* C20: a run that ends normally, or that was cancelled and saved its
\* checkpoint, exits with status 0; a non-zero status comes only from a
\* start-up error (--live-check without the detector module), so a run that
\* got as far as accepting domains exits with 0.
C20_ExitStatus ==
    ExitedAfterWork => exit_status = 0

(***************************************************************************)
(* SpecCheckpoint: a CheckpointManager on a new file, its writing methods  *)
(* called in any order while the clock advances                            *)
(***************************************************************************)
\* the domains SpecCheckpoint saves
CkDomains == {"shop.test"}

\* the TLDs whose progress SpecCheckpoint saves
CkTlds == {"test", "shop"}

InsertOrMerge(rows, key, row) ==
    [k \in DOMAIN rows \cup {key} |->
        IF k # key THEN rows[k]
        ELSE IF key \in DOMAIN rows
             THEN [f \in DOMAIN row |->
                      IF f \in {"last_url", "last_timestamp"} /\ row[f] = ""
                      THEN rows[key][f] ELSE row[f]]
             ELSE row]
\* INSERT OR REPLACE INTO a table with primary key "key"
InsertOrReplace(rows, key, row) ==
    [k \in DOMAIN rows \cup {key} |-> IF k = key THEN row ELSE rows[k]]

\* json.dumps of a dict with string keys and integer values: the text
JsonText(d) == [json |-> d]
json_dumps(d) == JsonText(d)
\* json.loads of such a text
json_loads(text) == text.json

\* Stats() of crawler_v2.py, constructed at clock reading t
NewFullStats(t) ==
    [total_urls |-> 0, total_domains |-> 0, ecommerce_count |-> 0, skipped |-> 0,
     live_checked |-> 0, live_detected |-> 0, start_time |-> t,
     domains_by_tld |-> <<>>, cms_counts |-> <<>>, live_platforms |-> <<>>]

\* the columns of the stats table besides id
StatsColumns ==
    {"total_urls", "total_domains", "ecommerce_count", "skipped", "live_checked",
     "live_detected", "start_time", "domains_by_tld", "cms_counts", "live_platforms"}

\* the columns stored as JSON text
JsonColumns == {"domains_by_tld", "cms_counts", "live_platforms"}

\* save_stats: the row INSERT OR REPLACE writes
SaveStatsRow(st) ==
    [c \in StatsColumns |-> IF c \in JsonColumns THEN json_dumps(st[c]) ELSE st[c]]

\* load_stats: the columns copied to the object (row[6], start_time, is not)
LoadedColumns == StatsColumns \ {"start_time"}

\* load_stats(stats): the object afterwards (a JSON column written by
\* save_stats is never NULL or empty, so "if row[7]" is true)
LoadStatsInto(tables, st) ==
    IF tables.stats = NoRow THEN st
    ELSE [c \in DOMAIN st |->
            IF c \notin LoadedColumns THEN st[c]
            ELSE IF c \in JsonColumns THEN json_loads(tables.stats[c])
                 ELSE tables.stats[c]]

\* now - self.last_save_time >= self.save_interval_seconds
Elapsed(t, last) == t - last >= save_interval_seconds

\* history of a CheckpointManager: the save_domain calls made since the last
\* commit() and in all, the clock reading at the last commit() (at
\* construction before the first), the last method called (for
\* save_tld_progress with the row passed and the row it found), and the
\* Stats object as it was given to the last save_stats
NewCkHist ==
    [saves_since_commit |-> 0, commit_time |-> 0, saves |-> 0,
     last_call |-> [method |-> "__init__"], saved_stats |-> NoRow]

\* __init__: last_save_time = time.time(), domains_since_save = 0
InitCheckpoint ==
    /\ db = EmptyTables
    /\ durable = EmptyTables
    /\ domains_since_save = 0
    /\ last_save_time = 0
    /\ now = 0
    /\ args = NoRow
    /\ find = NoRow
    /\ ExtraOff
    /\ hist = NewCkHist
    /\ calls = <<>>
    /\ v2_input = <<>>
    /\ v2_limit = 0
    /\ run = 0
    /\ v2 = [pc |-> "off"]
    /\ global_seen = {}
    /\ stats = NewFullStats(0)
    /\ DiskOff
    /\ LiveOff

\* the clock advances
CkTick ==
    /\ now < MaxTime
    /\ now' = now + 1
    /\ UNCHANGED <<storeVars, calls, v2Vars, diskVars, liveVars, last_save_time, args, find, extraVars>>

\* save_domain(domain, ...): the upsert and the count of the call
CkSaveDomain ==
    /\ hist.saves < MaxSaves
    /\ \E domain \in CkDomains :
          db' = [db EXCEPT !.domains = save_domain(@, domain, "test", FALSE, "", 1)]
    /\ domains_since_save' = domains_since_save + 1
    /\ hist' = [hist EXCEPT !.saves_since_commit = @ + 1, !.saves = @ + 1,
                            !.last_call = [method |-> "save_domain"]]
    /\ UNCHANGED <<durable, calls, v2_input, v2_limit, run, v2, global_seen, stats,
                   diskVars, liveVars, otherVars>>

\* commit(): conn.commit(), last_save_time = time.time(), domains_since_save = 0
CkCommit ==
    /\ durable' = db
    /\ last_save_time' = now
    /\ domains_since_save' = 0
    /\ hist' = [hist EXCEPT !.saves_since_commit = 0, !.commit_time = now,
                            !.last_call = [method |-> "commit"]]
    /\ UNCHANGED <<db, calls, v2_input, v2_limit, run, v2, global_seen, stats,
                   diskVars, liveVars, now, args, find, extraVars>>

\* the arguments SpecCheckpoint passes to save_tld_progress: every one at
\* its default or zero, the call of crawler_v2.py line 351 and the call of
\* line 390
ProgressArgs ==
    {[urls_scanned |-> 0, domains_found |-> 0, completed |-> FALSE,
      last_url |-> "", last_timestamp |-> ""],
     [urls_scanned |-> 1, domains_found |-> 1, completed |-> FALSE,
      last_url |-> "http://a.test/", last_timestamp |-> "20240101"],
     [urls_scanned |-> 2, domains_found |-> 2, completed |-> TRUE,
      last_url |-> "http://b.test/", last_timestamp |-> "20240102"]}

\* save_tld_progress(tld, urls_scanned, domains_found, completed=False,
\* last_url='', last_timestamp=''): INSERT OR REPLACE and conn.commit()
CkSaveTldProgress ==
    /\ \E tld \in CkTlds, a \in ProgressArgs :
          LET row == [urls_scanned |-> a.urls_scanned,
                      domains_found |-> a.domains_found,
                      completed |-> BoolToInt(a.completed),
                      last_url |-> a.last_url,
                      last_timestamp |-> a.last_timestamp]
          IN  /\ db' = [db EXCEPT !.tld_progress = InsertOrReplace(@, tld, row)]
              /\ hist' = [hist EXCEPT !.last_call =
                             [method |-> "save_tld_progress", tld |-> tld, row |-> row,
                              old |-> IF tld \in DOMAIN db.tld_progress
                                      THEN db.tld_progress[tld] ELSE NoRow]]
    /\ durable' = db'
    /\ UNCHANGED <<domains_since_save, calls, v2_input, v2_limit, run, v2, global_seen,
                   stats, diskVars, liveVars, otherVars>>

\* the crawler works: the counters and dicts of the Stats object grow
CkWork ==
    /\ stats.total_urls = 0
    /\ stats' = [stats EXCEPT !.total_urls = 5, !.total_domains = 2,
                              !.ecommerce_count = 1, !.skipped = 3,
                              !.live_checked = 2, !.live_detected = 1,
                              !.domains_by_tld = [t \in {"test"} |-> 2],
                              !.cms_counts = [c \in {"Shopify"} |-> 1],
                              !.live_platforms = [c \in {"Shopify"} |-> 1]]
    /\ hist' = [hist EXCEPT !.last_call = [method |-> "work"]]
    /\ UNCHANGED <<storeVars, calls, v2_input, v2_limit, run, v2, global_seen,
                   diskVars, liveVars, otherVars>>

\* save_stats(stats): INSERT OR REPLACE of row 1 and conn.commit()
CkSaveStats ==
    /\ db' = [db EXCEPT !.stats = SaveStatsRow(stats)]
    /\ durable' = db'
    /\ hist' = [hist EXCEPT !.last_call = [method |-> "save_stats"],
                            !.saved_stats = stats]
    /\ UNCHANGED <<domains_since_save, calls, v2_input, v2_limit, run, v2, global_seen,
                   stats, diskVars, liveVars, otherVars>>

\* a resumed process: a new Stats object, constructed now, and
\* load_stats(stats) on it
CkLoadStats ==
    /\ stats' = LoadStatsInto(db, NewFullStats(now))
    /\ hist' = [hist EXCEPT !.last_call = [method |-> "load_stats"]]
    /\ UNCHANGED <<storeVars, calls, v2_input, v2_limit, run, v2, global_seen,
                   diskVars, liveVars, otherVars>>

NextCheckpoint ==
    \/ CkTick
    \/ CkSaveDomain
    \/ CkCommit
    \/ CkSaveTldProgress
    \/ CkWork
    \/ CkSaveStats
    \/ CkLoadStats

SpecCheckpoint == InitCheckpoint /\ [][NextCheckpoint]_vars

(***************************************************************************)
(* Properties of the CheckpointManager (SpecCheckpoint)                    *)
(***************************************************************************)
\* what should_save() returns in this state
ShouldSaveNow == should_save(domains_since_save, Elapsed(now, last_save_time))

\* one of the two measures of should_save is set back in this step
MeasureReset ==
    domains_since_save' < domains_since_save \/ last_save_time' # last_save_time

\* C21: should_save() is true exactly when the save_domain calls since the
\* last commit() have reached save_interval_domains or the time since the
\* last commit() has reached save_interval_seconds; right after commit() it
\* is false; no method but commit() sets either measure back.
C21_ShouldSaveThresholds ==
    [][/\ ShouldSaveNow' <=>
             \/ hist'.saves_since_commit >= save_interval_domains
             \/ now' - hist'.commit_time >= save_interval_seconds
       /\ CkCommit => ~ShouldSaveNow'
       /\ MeasureReset => CkCommit]_vars

\* C21 witness: after a commit() at a later clock reading, the item
\* threshold alone makes should_save() true, with writes of the other
\* methods in between
C21_Witness ==
    /\ hist.commit_time > 0
    /\ hist.saves_since_commit = save_interval_domains
    /\ ~Elapsed(now, last_save_time)
    /\ ShouldSaveNow
    /\ db.stats # NoRow
    /\ db.tld_progress # <<>>

\* this step is a call of save_tld_progress
ProgressSaved ==
    hist'.last_call.method = "save_tld_progress" /\ hist'.last_call # hist.last_call

\* C22: save_tld_progress(tld, ...) replaces the whole row of the TLD: every
\* field of the row afterwards is the value passed (or its default), nothing
\* of the row before survives, and the rows of the other TLDs are untouched.
C22_ProgressRowReplaced ==
    [][ProgressSaved =>
          LET c == hist'.last_call
          IN  /\ DOMAIN db'.tld_progress = DOMAIN db.tld_progress \cup {c.tld}
              /\ db'.tld_progress[c.tld] = c.row
              /\ \A t \in DOMAIN db.tld_progress \ {c.tld} :
                     db'.tld_progress[t] = db.tld_progress[t]]_vars

\* C22 witness: a call with the defaults has replaced a row that had a
\* last_url and a last_timestamp, while the other TLD has its row
C22_Witness ==
    /\ hist.last_call.method = "save_tld_progress"
    /\ hist.last_call.old # NoRow
    /\ hist.last_call.old.last_url # ""
    /\ hist.last_call.old.last_timestamp # ""
    /\ db.tld_progress[hist.last_call.tld].last_url = ""
    /\ db.tld_progress[hist.last_call.tld].last_timestamp = ""
    /\ DOMAIN db.tld_progress = CkTlds

\* load_stats was the last call and a save_stats came before it
LoadedAfterSave == hist.last_call.method = "load_stats" /\ hist.saved_stats # NoRow

\* C23: save_stats and then load_stats into a new Stats object restores
\* the snapshot verbatim: every persisted field of the loaded object equals
\* the value that was saved.
C23_StatsRestoredVerbatim ==
    LoadedAfterSave => \A c \in StatsColumns : stats[c] = hist.saved_stats[c]

\* C23 without start_time: the fields load_stats does copy
C23_LoadedColumnsRestored ==
    LoadedAfterSave => \A c \in LoadedColumns : stats[c] = hist.saved_stats[c]

(***************************************************************************)
(* SpecArgs: crawler_v2.py main, lines 440-501: the command line, the      *)
(* resume branch and the metadata it saves                                 *)
(***************************************************************************)
\* the default of crawler_v2's --limit
DefaultLimitV2 == 100000000

\* has_checkpoint(): SELECT COUNT(*) FROM domains > 0
has_checkpoint(tables) == DOMAIN tables.domains # {}

\* save_metadata(key, value): INSERT OR REPLACE of json.dumps(value)
save_metadata(tables, key, value) ==
    [tables EXCEPT !.metadata = InsertOrReplace(@, key, json_dumps(value))]

\* get_metadata(key, default): json.loads of the row, default without a row
get_metadata(tables, key, default) ==
    IF key \in DOMAIN tables.metadata THEN json_loads(tables.metadata[key]) ELSE default

\* a missing -t (None), which is false like the empty list
NoTld == <<>>

\* the command lines of a first run; args.tld is the comma-separated list,
\* given by its parts
FirstArgs ==
    [tld : {<<"test">>, <<"shop">>, <<"test", "shop">>},
     limit : {DefaultLimitV2, MaxLimit},
     pages : {ArgsPages, 1},
     keywords : {None, "shoes"},
     min_urls : {1, 2},
     resume : {FALSE}]

\* the command line "--resume" with nothing else: argparse's defaults
ResumeOnlyArgs ==
    [tld |-> NoTld, limit |-> DefaultLimitV2, pages |-> ArgsPages, keywords |-> None,
     min_urls |-> 1, resume |-> TRUE]

\* the 'args' dict main saves
SavedArgs(a) ==
    [limit |-> a.limit, pages |-> a.pages, keywords |-> a.keywords,
     min_urls |-> a.min_urls]

InitArgs ==
    /\ db = EmptyTables
    /\ durable = EmptyTables
    /\ domains_since_save = 0
    /\ args \in FirstArgs
    /\ run = 1
    /\ v2 = [pc |-> "resume", tlds |-> <<>>, resumed |-> FALSE]
    /\ hist = [original |-> args]
    /\ calls = <<>>
    /\ v2_input = <<>>
    /\ v2_limit = 0
    /\ global_seen = {}
    /\ stats = NoRow
    /\ DiskOff
    /\ LiveOff
    /\ ClockOff
    /\ find = NoRow
    /\ ExtraOff

\* lines 467-485: with --resume and a checkpoint that has domains, the saved
\* TLD list replaces a missing -t
ArgsResume ==
    /\ v2.pc = "resume"
    /\ IF args.resume /\ has_checkpoint(db)
       THEN LET saved_tlds == get_metadata(db, "tlds", NoTld)
            IN  /\ args' = IF saved_tlds # NoTld /\ args.tld = NoTld
                           THEN [args EXCEPT !.tld = saved_tlds] ELSE args
                /\ v2' = [v2 EXCEPT !.pc = "metadata", !.resumed = TRUE]
       ELSE /\ v2' = [v2 EXCEPT !.pc = "metadata"]
            /\ UNCHANGED args
    /\ UNCHANGED <<storeVars, calls, v2_input, v2_limit, run, global_seen, stats, hist,
                   diskVars, liveVars, clockVars, find, extraVars>>

\* lines 487-501: parser.error without a TLD list; else the list and the
\* four settings of this command line are saved as metadata
ArgsSaveMetadata ==
    /\ v2.pc = "metadata"
    /\ IF args.tld = NoTld
       THEN /\ v2' = [v2 EXCEPT !.pc = "error"]
            /\ UNCHANGED <<db, durable>>
       ELSE /\ db' = save_metadata(save_metadata(db, "tlds", args.tld),
                                   "args", SavedArgs(args))
            /\ durable' = db'
            /\ v2' = [v2 EXCEPT !.pc = "crawl", !.tlds = args.tld]
    /\ UNCHANGED <<domains_since_save, calls, v2_input, v2_limit, run, global_seen, stats,
                   hist, diskVars, liveVars, otherVars>>

\* the run crawls with args and tlds: it ends, or is killed, with a domain
\* saved or with none
ArgsCrawl ==
    /\ v2.pc = "crawl"
    /\ \E saved \in BOOLEAN :
          db' = IF saved
                THEN [db EXCEPT !.domains =
                         save_domain(@, "a." \o v2.tlds[1], v2.tlds[1], FALSE, "", 1)]
                ELSE db
    /\ durable' = db'
    /\ v2' = [v2 EXCEPT !.pc = "ended"]
    /\ UNCHANGED <<domains_since_save, calls, v2_input, v2_limit, run, global_seen, stats,
                   hist, diskVars, liveVars, otherVars>>

\* the operator starts the program again with --resume and nothing else
ArgsRerun ==
    /\ v2.pc \in {"ended", "error"}
    /\ run < MaxRuns
    /\ run' = run + 1
    /\ args' = ResumeOnlyArgs
    /\ v2' = [pc |-> "resume", tlds |-> <<>>, resumed |-> FALSE]
    /\ UNCHANGED <<storeVars, calls, v2_input, v2_limit, global_seen, stats, hist,
                   diskVars, liveVars, clockVars, find, extraVars>>

NextArgs == ArgsResume \/ ArgsSaveMetadata \/ ArgsCrawl \/ ArgsRerun

SpecArgs == InitArgs /\ [][NextArgs]_vars

\* C24: a run started with --resume and nothing else, on a checkpoint that
\* has domains, runs with the TLD list and with the limit, pages, keywords
\* and min_urls of the original command line.
C24_ResumeUsesSavedConfig ==
    (run > 1 /\ v2.resumed /\ v2.pc \in {"crawl", "ended"}) =>
        /\ v2.tlds = hist.original.tld
        /\ SavedArgs(args) = SavedArgs(hist.original)

\* C24, the TLD list alone
C24_ResumeUsesSavedTlds ==
    (run > 1 /\ v2.resumed /\ v2.pc \in {"crawl", "ended"}) =>
        v2.tlds = hist.original.tld

\* C27, as stated: a chunk whose download raised is not dropped without a
\* retry, so once the pool is done download_to_disk was called again for it
C27_FailedDownloadRetried ==
    phase = "done" =>
        \A c \in hist.download_failed : hist.download_calls[c] >= 2

\* what the code does: download_to_disk is called once per chunk, whether the
\* call raises or not
C27_OneDownloadPerChunk ==
    phase \in {"pool", "done"} =>
        \A c \in 1..MaxChunks : hist.download_calls[c] <= 1

\* C29, as stated: with any number of pool threads the domains the run
\* counts as accepted for the TLD (stats.add) never exceed --limit
C29_CountedWithinLimit ==
    phase \in {"pool", "done"} => stats.domains_by_tld <= limit

\* the second half of C29: the domains a resumed run found in the store
\* count too, so the store never holds more than --limit domains of the TLD
C29_StoredWithinLimit ==
    phase \in {"pool", "done"} => Cardinality(seen) <= limit

(***************************************************************************)
(* SpecScan: the pool of crawler_disk.py on a new checkpoint with a single *)
(* chunk; the line read last and the malformed lines read are recorded     *)
(***************************************************************************)
\* fewer than three fields, or a record without a url; json.loads raising is
\* handled by the same "except Exception: continue"
Malformed(line) == line.parts < 3 \/ line.url = ""

ScanHist ==
    [f \in DOMAIN NewDiskHist \cup {"last_line", "malformed"} |->
        IF f = "last_line" THEN NoRow
        ELSE IF f = "malformed" THEN 0
        ELSE NewDiskHist[f]]

InitScan ==
    /\ db = EmptyTables
    /\ durable = EmptyTables
    /\ seen = {}
    /\ stats = NewDiskStats
    /\ domains_since_save = 0
    /\ cache_size \in 1..MaxCacheSize
    /\ semaphore = cache_size
    /\ limit \in 1..MaxLimit \cup {DefaultLimit}
    /\ chunks = <<1>>
    /\ task = [w \in Workers |-> IdleTask]
    /\ files = {}
    /\ live_queue = <<>>
    /\ phase = "pool"
    /\ hist = ScanHist
    /\ LiveOff
    /\ OtherOff
    /\ StoreHistoryOff
    /\ v2_input = <<>>
    /\ v2_limit = 0
    /\ run = 0
    /\ v2 = [pc |-> "off"]
    /\ global_seen = {}

\* ReadLine, with the line recorded
ScanLine(w) ==
    /\ task[w].pc = "scan"
    /\ task[w].lines_count < MaxLines
    /\ \E line \in DiskLines :
        /\ ReadLineOf(w, line)
        /\ hist' = [hist EXCEPT !.last_line = line,
                                !.malformed = @ + BoolToInt(Malformed(line))]
    /\ UNCHANGED <<storeVars, calls, liveVars, otherVars, v2_input, v2_limit, run, v2, global_seen, stats,
                   phase, cache_size, limit, chunks, semaphore, files, seen, live_queue>>

NextScan ==
    \/ \E w \in Workers : TakeTask(w)
    \/ \E w \in Workers : Acquire(w)
    \/ \E w \in Workers : DownloadOk(w)
    \/ \E w \in Workers : DownloadFail(w)
    \/ \E w \in Workers : ScanLine(w)
    \/ \E w \in Workers : Gate(w)
    \/ \E w \in Workers : Flush(w)
    \/ \E w \in Workers : EndOfFile(w)
    \/ \E w \in Workers : ReadError(w)
    \/ \E w \in Workers : Finally(w)
    \/ \E w \in Workers : Release(w)
    \/ MainEnd

SpecScan == InitScan /\ [][NextScan]_vars

\* the step is the read of a malformed line by pool thread w
ReadsMalformed(w) ==
    /\ task[w].pc = "scan"
    /\ task'[w].lines_count = task[w].lines_count + 1
    /\ Malformed(hist'.last_line)

\* C35, as stated: a malformed line does not end the scan, leaves the seen
\* set, the store and the domain counters as they are, and is counted in
\* the statistics of the run
C35_MalformedLineCounted ==
    (phase = "done" /\ "malformed" \in DOMAIN hist) =>
        stats.total_urls >= hist.malformed

\* the first part of C35 alone: the read of a malformed line leaves the
\* thread scanning and changes neither seen, the store, the queue, the
\* batch nor any counter of stats
C35_MalformedLineSkipped ==
    [][\A w \in Workers :
          ReadsMalformed(w) =>
              /\ task'[w].pc = "scan"
              /\ task'[w].batch = task[w].batch
              /\ seen' = seen
              /\ db' = db
              /\ stats' = stats
              /\ live_queue' = live_queue]_vars

(***************************************************************************)
(* SpecFind: crawler_disk.py find_chunks_for_tlds, lines 103-142           *)
(***************************************************************************)
\* the TLDs of the index, in the sort order of their "tld," keys
IndexTlds == <<"de", "fr", "uk">>
Rank(tld) == CHOOSE i \in 1..Len(IndexTlds) : IndexTlds[i] = tld

\* a line of cluster.idx: the TLD its sort key starts with and the N of the
\* cdx-N.gz it names
IndexLines == [tld : {IndexTlds[i] : i \in 1..Len(IndexTlds)}, chunk : 1..MaxChunkId]

\* the index is sorted by key, and the chunks are numbered along it
SortedIndex(lines) ==
    \A i \in 1..Len(lines) - 1 :
        /\ Rank(lines[i].tld) <= Rank(lines[i + 1].tld)
        /\ lines[i].chunk <= lines[i + 1].chunk

\* the requested TLD lists: one or two different TLDs, in either order
TldLists ==
    {l \in UNION {[1..n -> {IndexTlds[i] : i \in 1..Len(IndexTlds)}] : n \in 1..2} :
        \A i, j \in 1..Len(l) : i # j => l[i] # l[j]}

StartsWithAnything(line, tld) == TRUE
\* line.startswith(f"{tld},")
StartsWith(line, tld) == line.tld = tld

\* sorted(a set of integers)
RECURSIVE sorted(_)
sorted(S) ==
    IF S = {} THEN <<>>
    ELSE LET m == CHOOSE x \in S : \A y \in S : x <= y
         IN  <<m>> \o sorted(S \ {m})

\* the call find_chunks_for_tlds(tlds) with the index read
InitFind ==
    /\ \E n \in 0..MaxIndexLines, tlds \in TldLists :
         \E lines \in [1..n -> IndexLines] :
            /\ SortedIndex(lines)
            /\ find = [pc |-> "lines", lines |-> lines, tlds |-> tlds, i |-> 1,
                       tld_chunks |-> <<>>, all_chunks |-> <<>>]
    /\ db = EmptyTables
    /\ durable = EmptyTables
    /\ domains_since_save = 0
    /\ calls = <<>>
    /\ V2Off
    /\ DiskOff
    /\ LiveOff
    /\ ClockOff
    /\ args = NoRow
    /\ ExtraOff

\* lines 124-131: the next line; the first requested TLD it starts with gets
\* the line's chunk id
FindLine ==
    /\ find.pc = "lines"
    /\ find.i <= Len(find.lines)
    /\ LET line == find.lines[find.i]
           hits == {k \in 1..Len(find.tlds) : StartsWith(line, find.tlds[k])}
           old == find.tld_chunks
       IN  IF hits = {}
           THEN find' = [find EXCEPT !.i = @ + 1]
           ELSE LET tld == find.tlds[CHOOSE k \in hits : \A h \in hits : k <= h]
                    had == IF tld \in DOMAIN old THEN old[tld] ELSE {}
                IN  find' = [find EXCEPT
                        !.i = @ + 1,
                        !.tld_chunks = [t \in DOMAIN old \cup {tld} |->
                                           IF t = tld THEN had \cup {line.chunk}
                                           ELSE old[t]]]
    /\ UNCHANGED <<storeVars, calls, v2Vars, diskVars, liveVars, clockVars, args, extraVars>>

\* lines 133-142: every requested TLD is looked up (which gives a TLD without
\* a line its empty set) and the sorted union is returned
FindReturn ==
    /\ find.pc = "lines"
    /\ find.i > Len(find.lines)
    /\ LET old == find.tld_chunks
           requested == {find.tlds[k] : k \in 1..Len(find.tlds)}
           tld_chunks == [t \in DOMAIN old \cup requested |->
                             IF t \in DOMAIN old THEN old[t] ELSE {}]
       IN  find' = [find EXCEPT
               !.pc = "returned",
               !.tld_chunks = tld_chunks,
               !.all_chunks = sorted(UNION {tld_chunks[t] : t \in requested})]
    /\ UNCHANGED <<storeVars, calls, v2Vars, diskVars, liveVars, clockVars, args, extraVars>>

NextFind == FindLine \/ FindReturn

SpecFind == InitFind /\ [][NextFind]_vars

Requested == {find.tlds[k] : k \in 1..Len(find.tlds)}

\* block i of the index holds the keys from the key of line i up to the key
\* of line i+1, so it can hold a key that starts with "tld," when the TLD
\* lies between the TLDs of the two lines
BlockCanContain(lines, i, tld) ==
    /\ Rank(lines[i].tld) <= Rank(tld)
    /\ i < Len(lines) => Rank(tld) <= Rank(lines[i + 1].tld)

ChunksThatCanContain(lines, tlds) ==
    {lines[i].chunk : i \in {j \in 1..Len(lines) :
                               \E t \in tlds : BlockCanContain(lines, j, t)}}

Returned == find # NoRow /\ find.pc = "returned"

ElementsOf(seq) == {seq[k] : k \in 1..Len(seq)}

\* C25, as stated: the returned list is ascending and duplicate-free, it is
\* the union of the per-TLD chunk sets, and a chunk id is in it exactly when
\* that chunk can contain an entry whose key starts with a requested "tld,"
C25_ChunksExactlyThoseContaining ==
    Returned =>
        /\ \A k \in 1..Len(find.all_chunks) - 1 :
               find.all_chunks[k] < find.all_chunks[k + 1]
        /\ ElementsOf(find.all_chunks) = UNION {find.tld_chunks[t] : t \in Requested}
        /\ ElementsOf(find.all_chunks) = ChunksThatCanContain(find.lines, Requested)

\* what does hold of the returned list: ascending, duplicate-free, the union
\* of the per-TLD sets, and every chunk in it can contain a requested entry
C25_ChunksSortedUnionWithin ==
    Returned =>
        /\ \A k \in 1..Len(find.all_chunks) - 1 :
               find.all_chunks[k] < find.all_chunks[k + 1]
        /\ ElementsOf(find.all_chunks) = UNION {find.tld_chunks[t] : t \in Requested}
        /\ ElementsOf(find.all_chunks) \subseteq ChunksThatCanContain(find.lines, Requested)

\* process_chunk line 248: the TLDs whose chunk set holds the chunk
tlds_in_chunk(chunk_id, tld_chunks) ==
    {t \in DOMAIN tld_chunks : chunk_id \in tld_chunks[t]}

\* the call on the same index with one TLD left out of the request:
\* lines 124-131 give a TLD the chunks of the lines that start with it
ChunksWithout(lines, tlds, left_out) ==
    [u \in tlds \ {left_out} |->
        {lines[i].chunk : i \in {j \in 1..Len(lines) : StartsWith(lines[j], u)}}]

NoIndexLine(tld) == \A i \in 1..Len(find.lines) : find.lines[i].tld # tld

\* C26: a requested TLD that no index line starts with raises nothing and
\* gets the empty chunk set, so no chunk is scanned for it, and the chunk
\* sets of the other requested TLDs and the returned list are those of the
\* request without it
C26_EmptyPartitionHarmless ==
    Returned =>
        \A t \in Requested :
            NoIndexLine(t) =>
                /\ t \in DOMAIN find.tld_chunks
                /\ find.tld_chunks[t] = {}
                /\ \A c \in 1..MaxChunkId : t \notin tlds_in_chunk(c, find.tld_chunks)
                /\ \A u \in Requested \ {t} :
                       find.tld_chunks[u] = ChunksWithout(find.lines, Requested, t)[u]
                /\ find.all_chunks =
                       sorted(UNION {ChunksWithout(find.lines, Requested, t)[u] :
                                       u \in Requested \ {t}})

\* a TLD without an index line was requested next to one that has chunks
C26_Witness ==
    /\ Returned
    /\ \E t, u \in Requested :
         /\ NoIndexLine(t)
         /\ find.tld_chunks[t] = {}
         /\ find.tld_chunks[u] # {}
         /\ Len(find.all_chunks) > 0

(***************************************************************************)
(* SpecMinUrls: collect_tld of crawler.py and of crawler_v2.py run with    *)
(* --min-urls above 1 on a new checkpoint                                  *)
(***************************************************************************)
MinVariants == {"crawler", "crawler_v2"}

\* the values of --min-urls explored
MinUrlsArgs == {2, 3}

\* a first run of either program with --min-urls m and the default --limit
InitMinUrls ==
    /\ variant \in MinVariants
    /\ \E m \in MinUrlsArgs : args = [min_urls |-> m, limit |-> DefaultLimitV2]
    /\ v2_input \in UNION {[1..n -> V2Items] : n \in 0..MaxItems}
    /\ v2_limit = DefaultLimitV2
    /\ run = 1
    /\ v2 = [pc |-> "iter", pos |-> 0, local_seen |-> <<>>, order |-> <<>>,
             domains_saved |-> 0, k |-> 0]
    /\ global_seen = {}
    /\ stats = NewStats
    /\ hist = [saved |-> {}]
    /\ db = EmptyTables
    /\ durable = EmptyTables
    /\ domains_since_save = 0
    /\ StoreHistoryOff
    /\ DiskOff
    /\ unfinished_tasks = 0
    /\ crawl_done = FALSE
    /\ live_worker = <<>>
    /\ live_csv = NoRow
    /\ exit_status = None
    /\ DETECTOR_AVAILABLE = FALSE
    /\ ClockOff
    /\ find = NoRow
    /\ ExtraOff

\* the loop leaves at once after a new domain: crawler.py line 366 on
\* len(seen), crawler_v2.py line 357 on domains_saved
MinBreak(seen_after, domains_saved) ==
    IF variant = "crawler" THEN Cardinality(DOMAIN seen_after) >= args.limit * 2
    ELSE domains_saved >= args.limit

\* crawler_v2.py line 312: "if domain in global_seen: continue", ahead of the
\* count of a repeat; crawler.py has no such set
GlobalSeenSkip(domain) == variant = "crawler_v2" /\ domain \in global_seen

\* one iteration of "for obj in ..." with min_urls > 1: crawler.py 297-367,
\* crawler_v2.py 289-358. A new domain is entered with count 1 (and, in
\* crawler_v2, put in global_seen); nothing is saved in the loop
MinNextItem ==
    /\ v2.pc = "iter"
    /\ v2.pos < Len(v2_input)
    /\ LET obj == v2_input[v2.pos + 1]
           url == obj.url
           domain == extract_domain(url)
           ecom == is_ecommerce(url)
           cms == detect_cms(url)
           counted == [stats EXCEPT !.total_urls = @ + 1]
           step == [v2 EXCEPT !.pos = @ + 1]
           old == v2.local_seen
       IN  IF obj.page > ArgsPages
           THEN /\ v2' = [step EXCEPT !.pc = "post"]
                /\ stats' = counted
                /\ UNCHANGED global_seen
           ELSE IF domain = None \/ ~EndsWithTld(domain, V2Tld)
           THEN /\ v2' = step
                /\ stats' = counted
                /\ UNCHANGED global_seen
           ELSE IF HasBadPattern(domain)
           THEN /\ v2' = step
                /\ stats' = [counted EXCEPT !.skipped = @ + 1]
                /\ UNCHANGED global_seen
           ELSE IF GlobalSeenSkip(domain)
           THEN /\ v2' = step
                /\ stats' = counted
                /\ UNCHANGED global_seen
           ELSE IF domain \in DOMAIN old
           THEN /\ v2' = [step EXCEPT
                            !.local_seen[domain] =
                                [count |-> @.count + 1,
                                 cms |-> IF cms # None /\ @.cms = None THEN cms ELSE @.cms,
                                 ecom |-> @.ecom \/ ecom]]
                /\ stats' = counted
                /\ UNCHANGED global_seen
           ELSE LET seen1 == [d \in DOMAIN old \cup {domain} |->
                                IF d = domain
                                THEN [count |-> 1, cms |-> cms, ecom |-> ecom]
                                ELSE old[d]]
                IN  /\ v2' = [step EXCEPT
                                !.local_seen = seen1,
                                !.order = Append(@, domain),
                                !.pc = IF MinBreak(seen1, v2.domains_saved)
                                       THEN "post" ELSE "iter"]
                    /\ stats' = counted
                    /\ global_seen' = IF variant = "crawler_v2"
                                      THEN global_seen \cup {domain} ELSE global_seen
    /\ UNCHANGED <<storeVars, calls, liveVars, otherVars, diskVars, v2_input, v2_limit, run, hist>>

\* the listing is exhausted
MinExhausted ==
    /\ v2.pc = "iter"
    /\ v2.pos = Len(v2_input)
    /\ v2' = [v2 EXCEPT !.pc = "post"]
    /\ UNCHANGED <<storeVars, calls, liveVars, otherVars, diskVars, v2_input, v2_limit, run,
                   global_seen, stats, hist>>

\* one iteration of the loop after the scan (crawler.py 371-387, crawler_v2.py
\* 401-414): the next domain in insertion order is saved when its count
\* reached min_urls, and the loop is left at the limit
MinSaveNext ==
    /\ v2.pc = "post"
    /\ v2.k < Len(v2.order)
    /\ LET domain == v2.order[v2.k + 1]
           data == v2.local_seen[domain]
           saved == v2.domains_saved + 1
       IN  IF data.count >= args.min_urls
           THEN /\ stats' = [stats EXCEPT
                               !.total_domains = @ + 1,
                               !.ecommerce_count = @ + BoolToInt(data.ecom)]
                /\ hist' = [hist EXCEPT !.saved = @ \cup {domain}]
                /\ IF variant = "crawler_v2"
                   THEN /\ db' = [db EXCEPT !.domains =
                                     save_domain(@, domain, V2Tld, data.ecom, data.cms, 1)]
                        /\ domains_since_save' = domains_since_save + 1
                        /\ UNCHANGED durable
                   ELSE UNCHANGED storeVars
                /\ v2' = [v2 EXCEPT
                            !.k = @ + 1,
                            !.domains_saved = IF variant = "crawler_v2" THEN saved ELSE @,
                            !.pc = IF \/ variant = "crawler_v2" /\ saved >= args.limit
                                      \/ variant = "crawler"
                                         /\ stats.total_domains + 1 >= args.limit
                                   THEN "end" ELSE "post"]
           ELSE /\ v2' = [v2 EXCEPT !.k = @ + 1]
                /\ UNCHANGED <<storeVars, stats, hist>>
    /\ UNCHANGED <<calls, liveVars, otherVars, diskVars, v2_input, v2_limit, run, global_seen>>

\* the loop after the scan is over; crawler_v2.py 416-419 writes the progress
\* row as completed, saves the stats and commits
MinEnd ==
    /\ \/ v2.pc = "end"
       \/ v2.pc = "post" /\ v2.k = Len(v2.order)
    /\ v2' = [v2 EXCEPT !.pc = "done"]
    /\ IF variant = "crawler_v2"
       THEN /\ db' = save_stats(save_tld_progress(db, V2Tld, stats.total_urls,
                                                  v2.domains_saved, TRUE, ""), stats)
            /\ durable' = db'
            /\ domains_since_save' = 0
       ELSE UNCHANGED storeVars
    /\ UNCHANGED <<calls, liveVars, otherVars, diskVars, v2_input, v2_limit, run,
                   global_seen, stats, hist>>

NextMinUrls ==
    \/ MinNextItem
    \/ MinExhausted
    \/ MinSaveNext
    \/ MinEnd

SpecMinUrls == InitMinUrls /\ [][NextMinUrls]_vars

\* the number of URLs of the listing that pass the filters for the domain
AcceptedUrls(domain) ==
    Cardinality({i \in 1..Len(v2_input) :
                    /\ extract_domain(v2_input[i].url) = domain
                    /\ EndsWithTld(domain, V2Tld)
                    /\ ~HasBadPattern(domain)
                    /\ \A j \in 1..i : v2_input[j].page <= ArgsPages})

MinDomains == {"a.test", "b.test", "example.test", "a.other"}

\* C30, as stated: with --min-urls m > 1 a domain is saved exactly when it
\* occurs in at least m accepted URLs, in crawler.py and in crawler_v2.py
C30_SavedIffEnoughUrls ==
    (variant \in MinVariants /\ v2.pc = "done") =>
        \A d \in MinDomains : d \in hist.saved <=> AcceptedUrls(d) >= args.min_urls

\* the same for crawler.py alone, where a repeat is counted
C30_CrawlerSavesEnoughUrls ==
    (variant = "crawler" /\ v2.pc = "done") =>
        \A d \in MinDomains : d \in hist.saved <=> AcceptedUrls(d) >= args.min_urls

\* crawler_v2.py with --min-urls above 1 saves nothing at all
C30_V2SavesNothing ==
    (variant = "crawler_v2" /\ v2.pc \in {"iter", "post", "end", "done"}
        /\ args # NoRow /\ "min_urls" \in DOMAIN args) =>
        hist.saved = {} /\ db.domains = <<>>

(***************************************************************************)
(* SpecExport: checkpoint.py export_to_csv, lines 221-228                  *)
(***************************************************************************)
\* A text value is modelled by the pieces a reader of the CSV file gets when
\* it splits the value at its commas: "eng" is <<"eng">>, "eng,fra" is
\* <<"eng", "fra">> and the empty string is <<"">>.
Languages == {<<"">>, <<"eng">>, <<"eng", "fra">>}

\* the domains of the store and the TLD each is filed under
ExportDomains == {"a.test", "b.shop", "c.test"}
TldOf(domain) == IF domain = "b.shop" THEN "shop" ELSE "test"

\* the rows save_domain may have left for a domain (crawler_disk.py 219-224:
\* cms is '', country is looked up, language is data.get('languages', ''))
ExportRows(domain) ==
    [tld : {TldOf(domain)}, country : {"Unknown"}, is_ecommerce : {0, 1},
     cms : {""}, timestamp : {"20240101000000"}, language : Languages]

\* the strings of the store in SQLite's (binary) collation order
Collation == <<"a.test", "b.shop", "c.test", "shop", "test">>
CollationRank(str) == CHOOSE i \in 1..Len(Collation) : Collation[i] = str

\* ORDER BY tld, domain
OrderedBefore(rows, d, e) ==
    \/ CollationRank(rows[d].tld) < CollationRank(rows[e].tld)
    \/ /\ rows[d].tld = rows[e].tld
       /\ CollationRank(d) < CollationRank(e)

\* the domains of the rows in the order of the SELECT
RECURSIVE SelectOrdered(_, _)
SelectOrdered(rows, todo) ==
    IF todo = {} THEN <<>>
    ELSE LET first == CHOOSE d \in todo :
                         \A e \in todo \ {d} : OrderedBefore(rows, d, e)
         IN  <<first>> \o SelectOrdered(rows, todo \ {first})

\* str(bool(x)) in an f-string
BoolText(x) == IF x # 0 THEN "True" ELSE "False"

\* the header line, as a reader splits it
CsvHeader == <<"domain", "tld", "country", "is_ecommerce", "cms", "timestamp", "language">>

\* line 228: the values are put between commas as they are, without quotes,
\* so a reader gets the pieces of every value one after the other
CsvLine(rows, d) ==
    <<d, rows[d].tld, rows[d].country, BoolText(rows[d].is_ecommerce),
      rows[d].cms, rows[d].timestamp>> \o rows[d].language

\* a store with any of the rows, before the export
InitExport ==
    /\ \E present \in SUBSET ExportDomains :
         \E rows \in [present -> UNION {ExportRows(d) : d \in ExportDomains}] :
            /\ \A d \in present : rows[d] \in ExportRows(d)
            /\ db = [EmptyTables EXCEPT !.domains = rows]
    /\ durable = db
    /\ domains_since_save = 0
    /\ csv_file = NoFile
    /\ collector = <<>>
    /\ LockOff
    /\ calls = <<>>
    /\ V2Off
    /\ DiskOff
    /\ LiveOff
    /\ ClockOff
    /\ args = NoRow
    /\ find = NoRow

\* export_to_csv(csv_path)
ExportToCsv ==
    /\ csv_file = NoFile
    /\ LET order == SelectOrdered(db.domains, DOMAIN db.domains)
       IN  csv_file' = <<CsvHeader>> \o
                       [i \in 1..Len(order) |-> CsvLine(db.domains, order[i])]
    /\ UNCHANGED <<storeVars, calls, v2Vars, diskVars, liveVars, clockVars, args, find,
                   collector, lockVars>>

NextExport == ExportToCsv

SpecExport == InitExport /\ [][NextExport]_vars

Exported == csv_file # NoFile

\* the data line of the file that starts with the domain
LineOf(d) == CHOOSE i \in 2..Len(csv_file) : csv_file[i][1] = d

\* C31, as stated: the header, then exactly one line per stored row, ordered
\* by (tld, domain), every line with exactly the seven fields domain, tld,
\* country, is_ecommerce, cms, timestamp, language in that order
C31_SevenFieldsPerRow ==
    Exported =>
        /\ csv_file[1] = CsvHeader
        /\ Len(csv_file) = 1 + Cardinality(DOMAIN db.domains)
        /\ \A d \in DOMAIN db.domains : \E i \in 2..Len(csv_file) : csv_file[i][1] = d
        /\ \A i, j \in 2..Len(csv_file) :
               i < j => OrderedBefore(db.domains, csv_file[i][1], csv_file[j][1])
        /\ \A i \in 2..Len(csv_file) : Len(csv_file[i]) = Len(CsvHeader)

\* what holds for every store: the header, one line per row, in the order of
\* (tld, domain), the first six fields those of the row
C31_OneLinePerRowInOrder ==
    Exported =>
        /\ csv_file[1] = CsvHeader
        /\ Len(csv_file) = 1 + Cardinality(DOMAIN db.domains)
        /\ \A d \in DOMAIN db.domains :
               LET line == csv_file[LineOf(d)]
                   row == db.domains[d]
               IN  /\ line[2] = row.tld
                   /\ line[3] = row.country
                   /\ line[4] = BoolText(row.is_ecommerce)
                   /\ line[5] = row.cms
                   /\ line[6] = row.timestamp
        /\ \A i, j \in 2..Len(csv_file) :
               i < j => OrderedBefore(db.domains, csv_file[i][1], csv_file[j][1])

(***************************************************************************)
(* SpecCollectors: crawler_v2.py main, lines 608-612: the pool runs one    *)
(* collect_tld per entry of the TLD list; the list names the TLD twice     *)
(* (line 492 keeps duplicates), so two threads work on the same listing    *)
(* with the shared global_seen, stats and checkpoint                       *)
(***************************************************************************)
Collectors == 1..NumCollectors

\* the locals of a collect_tld call that the pool has not started
NewCollector == [pc |-> "collect", pos |-> 0, domain |-> None, url |-> "",
                 local_seen |-> {}, domains_saved |-> 0, batch_domains |-> 0,
                 last_url |-> ""]

\* stats.add_domain and save_domain calls per domain
NewCollectorHist ==
    [adds |-> [d \in {"a.test", "b.test"} |-> 0],
     saves |-> [d \in {"a.test", "b.test"} |-> 0]]

InitCollectors ==
    /\ v2_input \in UNION {[1..n -> V2Items] : n \in 0..MaxListing}
    /\ v2_limit \in 1..MaxLimit
    /\ collector = [w \in Collectors |-> NewCollector]
    /\ global_seen = {}
    /\ stats = NewStats
    /\ hist = NewCollectorHist
    /\ db = EmptyTables
    /\ durable = EmptyTables
    /\ domains_since_save = 0
    /\ run = 1
    /\ v2 = [pc |-> "pool"]
    /\ csv_file = NoFile
    /\ LockOff
    /\ calls = <<>>
    /\ DiskOff
    /\ LiveOff
    /\ ClockOff
    /\ args = NoRow
    /\ find = NoRow

\* lines 231-238: return at once for a completed TLD, else seed local_seen
\* (the CDX iterator is then made, lines 261-279)
CollectorStart(w) ==
    /\ collector[w].pc = "collect"
    /\ IF ProgressCompleted(get_tld_progress(db, V2Tld))
       THEN collector' = [collector EXCEPT ![w].pc = "returned"]
       ELSE collector' = [collector EXCEPT
               ![w].pc = "iter",
               ![w].local_seen = get_domains_for_tld(db, V2Tld),
               ![w].domains_saved = Cardinality(get_domains_for_tld(db, V2Tld))]
    /\ UNCHANGED <<storeVars, calls, v2_input, v2_limit, run, v2, global_seen, stats, hist,
                   diskVars, liveVars, clockVars, args, find, csv_file, lockVars>>

\* lines 289-328: the next record up to and including the tests
\* "if domain in global_seen" and "if domain in local_seen"; a domain that
\* passes both is new for this thread
CollectorTest(w) ==
    /\ collector[w].pc = "iter"
    /\ collector[w].pos < Len(v2_input)
    /\ LET obj == v2_input[collector[w].pos + 1]
           url == obj.url
           domain == extract_domain(url)
           step == [collector[w] EXCEPT !.pos = @ + 1]
           seenUrl == [step EXCEPT !.last_url = url]
       IN  /\ stats' = [stats EXCEPT
                !.total_urls = @ + 1,
                !.skipped = IF /\ obj.page <= ArgsPages
                               /\ domain # None
                               /\ EndsWithTld(domain, V2Tld)
                               /\ HasBadPattern(domain)
                            THEN @ + 1 ELSE @]
           /\ collector' = [collector EXCEPT ![w] =
                IF obj.page > ArgsPages THEN [step EXCEPT !.pc = "finish"]
                ELSE IF \/ domain = None
                        \/ ~EndsWithTld(domain, V2Tld)
                        \/ HasBadPattern(domain)
                        \/ domain \in global_seen
                        \/ domain \in collector[w].local_seen
                THEN seenUrl
                ELSE [seenUrl EXCEPT !.pc = "accept", !.domain = domain, !.url = url]]
    /\ UNCHANGED <<storeVars, calls, v2_input, v2_limit, run, v2, global_seen, hist,
                   diskVars, liveVars, clockVars, args, find, csv_file, lockVars>>

\* lines 330-357: local_seen and global_seen get the domain, stats.add_domain,
\* save_domain, and the test for a flush
CollectorAccept(w) ==
    /\ collector[w].pc = "accept"
    /\ LET c == collector[w]
           saved == c.domains_saved + 1
           batch == c.batch_domains + 1
       IN  \E elapsed \in BOOLEAN :
             LET flush == batch >= V2BatchSize
                          \/ should_save(domains_since_save + 1, elapsed)
             IN  /\ global_seen' = global_seen \cup {c.domain}
                 /\ stats' = [stats EXCEPT
                                !.total_domains = @ + 1,
                                !.ecommerce_count = @ + BoolToInt(is_ecommerce(c.url))]
                 /\ db' = [db EXCEPT !.domains =
                             save_domain(@, c.domain, V2Tld, is_ecommerce(c.url),
                                         detect_cms(c.url), 1)]
                 /\ domains_since_save' = domains_since_save + 1
                 /\ hist' = [hist EXCEPT !.adds[c.domain] = @ + 1,
                                         !.saves[c.domain] = @ + 1]
                 /\ collector' = [collector EXCEPT ![w] =
                        [c EXCEPT !.local_seen = @ \cup {c.domain},
                                  !.domains_saved = saved,
                                  !.batch_domains = batch,
                                  !.domain = None,
                                  !.url = "",
                                  !.pc = IF flush THEN "flush" ELSE AfterAccept(saved)]]
    /\ UNCHANGED <<durable, calls, v2_input, v2_limit, run, v2,
                   diskVars, liveVars, clockVars, args, find, csv_file, lockVars>>

\* lines 351-355: the progress row with completed = False, the stats, commit
CollectorFlush(w) ==
    /\ collector[w].pc = "flush"
    /\ db' = save_stats(save_tld_progress(db, V2Tld, stats.total_urls,
                                          collector[w].domains_saved, FALSE,
                                          collector[w].last_url), stats)
    /\ durable' = db'
    /\ domains_since_save' = 0
    /\ collector' = [collector EXCEPT
                        ![w].batch_domains = 0,
                        ![w].pc = AfterAccept(collector[w].domains_saved)]
    /\ UNCHANGED <<calls, v2_input, v2_limit, run, v2, global_seen, stats, hist,
                   diskVars, liveVars, clockVars, args, find, csv_file, lockVars>>

\* the listing is exhausted
CollectorExhausted(w) ==
    /\ collector[w].pc = "iter"
    /\ collector[w].pos = Len(v2_input)
    /\ collector' = [collector EXCEPT ![w].pc = "finish"]
    /\ UNCHANGED <<storeVars, calls, v2_input, v2_limit, run, v2, global_seen, stats, hist,
                   diskVars, liveVars, clockVars, args, find, csv_file, lockVars>>

\* lines 389-393: the progress row with completed = True, the stats, commit
CollectorFinish(w) ==
    /\ collector[w].pc = "finish"
    /\ db' = save_stats(save_tld_progress(db, V2Tld, stats.total_urls,
                                          collector[w].domains_saved, TRUE,
                                          collector[w].last_url), stats)
    /\ durable' = db'
    /\ domains_since_save' = 0
    /\ collector' = [collector EXCEPT ![w].pc = "returned"]
    /\ UNCHANGED <<calls, v2_input, v2_limit, run, v2, global_seen, stats, hist,
                   diskVars, liveVars, clockVars, args, find, csv_file, lockVars>>

NextCollectors ==
    \/ \E w \in Collectors : CollectorStart(w)
    \/ \E w \in Collectors : CollectorTest(w)
    \/ \E w \in Collectors : CollectorAccept(w)
    \/ \E w \in Collectors : CollectorFlush(w)
    \/ \E w \in Collectors : CollectorExhausted(w)
    \/ \E w \in Collectors : CollectorFinish(w)

SpecCollectors == InitCollectors /\ [][NextCollectors]_vars

\* C33, as stated: with global_seen shared by the pool threads a domain is
\* counted by stats.add_domain and written by save_domain by at most one of
\* them
C33_AcceptedByOneCollector ==
    v2.pc = "pool" =>
        \A d \in {"a.test", "b.test"} : hist.adds[d] <= 1 /\ hist.saves[d] <= 1

\* a collect_tld call is between its first line and its return
Collecting(w) == collector[w].pc \in {"iter", "accept", "flush", "finish"}

\* C39, as stated: no write sets the progress row of the TLD back from
\* completed to not completed
C39_CompletedMonotone ==
    [][RowCompleted(db) => RowCompleted(db')]_vars

\* the second half of C39: the TLD is never processed by two pool threads at
\* the same time
C39_OneCollectorPerTld ==
    v2.pc = "pool" =>
        \A w, x \in Collectors : (Collecting(w) /\ Collecting(x)) => w = x

(***************************************************************************)
(* SpecReconnect: crawler_v2.py collect_tld, lines 283-387, with a remote  *)
(* index that may raise a connection error before any record, as often as  *)
(* it likes; the reconnects of the call are counted                        *)
(***************************************************************************)
\* the locals of collect_tld and the number of iterators made after an error
ReconnectLocals ==
    [f \in DOMAIN V2Locals \cup {"reconnects"} |->
        IF f = "reconnects" THEN 0 ELSE V2Locals[f]]

InitReconnect ==
    /\ db = EmptyTables
    /\ durable = EmptyTables
    /\ domains_since_save = 0
    /\ StoreHistoryOff
    /\ DiskOff
    /\ LiveOff
    /\ OtherOff
    /\ v2_input \in UNION {[1..n -> V2Items] : n \in 0..MaxListing}
    /\ v2_limit \in 1..MaxLimit
    /\ run = 1
    /\ v2 = ReconnectLocals
    /\ global_seen = {}
    /\ stats = NewStats
    /\ hist = NewHist(EmptyTables)

\* lines 362-370: the iterator raises ConnectionError, TimeoutError or
\* OSError. consecutive_errors, which line 290 sets to 0 for every record
\* read, is incremented; at 5 the loop is left, below 5 the thread sleeps and
\* makes a new iterator, which lists from the start (or raises: line 395)
V2Reconnect ==
    /\ v2.pc = "iter"
    /\ v2.reconnects < MaxReconnects
    /\ LET n == v2.consecutive_errors + 1
       IN  IF n >= MaxConsecutive
           THEN /\ v2' = [v2 EXCEPT !.consecutive_errors = n, !.pc = "finish"]
                /\ hist' = [hist EXCEPT !.fatal = TRUE]
           ELSE /\ \E reconnected \in BOOLEAN :
                     v2' = [v2 EXCEPT !.consecutive_errors = n,
                                      !.reconnects = IF reconnected THEN @ + 1 ELSE @,
                                      !.pos = IF reconnected THEN 0 ELSE @,
                                      !.pc = IF reconnected THEN "iter" ELSE "outer_except"]
                /\ UNCHANGED hist
    /\ UNCHANGED <<storeVars, calls, liveVars, otherVars, diskVars, v2_input, v2_limit, run,
                   global_seen, stats>>

NextReconnect ==
    \/ V2Main
    \/ V2CollectStart
    \/ V2InitOk
    \/ V2NextItem
    \/ V2Flush
    \/ V2Exhausted
    \/ V2Reconnect
    \/ V2Finish
    \/ V2OuterExcept
    \/ V2MainEnd

SpecReconnect == InitReconnect /\ [][NextReconnect]_vars

\* C34, as stated: the reconnects made for one partition never exceed the
\* ceiling of 5, also when connection errors alternate with records read
C34_ReconnectsWithinCeiling ==
    "reconnects" \in DOMAIN v2 => v2.reconnects <= MaxConsecutive

\* what the ceiling does bound: the connection errors in a row, with no
\* record read between them
C34_ConsecutiveWithinCeiling ==
    "reconnects" \in DOMAIN v2 => v2.consecutive_errors <= MaxConsecutive

(***************************************************************************)
(* SpecStatsLock: the Stats object of crawler_disk.py and crawler_v2.py    *)
(* shared by the pool threads and the verification threads.  A Stats       *)
(* method is "with self.lock:" around one or more "x += n" statements,     *)
(* each of which reads the attribute and then writes it (two steps that     *)
(* another thread can come between).  A pool thread of crawler_v2.py also   *)
(* writes the object to the checkpoint with save_stats (line 352), and a    *)
(* killed process is followed by a new run that may load that row.          *)
(***************************************************************************)
Threads == 1..NumThreads
LockTlds == {"com", "net"}
LockPlatforms == {"Shopify"}

\* Stats.__init__, and main's "stats.domains_by_tld[t] = 0" for every TLD;
\* a platform that is not a key of live_platforms counts 0
NewSharedStats ==
    [total_domains |-> 0,
     domains_by_tld |-> [t \in LockTlds |-> 0],
     total_urls |-> 0,
     ecommerce_count |-> 0,
     live_checked |-> 0,
     live_detected |-> 0,
     live_platforms |-> [p \in LockPlatforms |-> 0]]

\* one "x += n" statement of a Stats method
Increment(field, key, n) == [field |-> field, key |-> key, n |-> n]

\* the statements of add(tld, ecom) and of add_domain(tld, cms, is_ecommerce)
AddSteps(tld, ecom) ==
    <<Increment("total_domains", None, 1), Increment("domains_by_tld", tld, 1)>>
    \o (IF ecom THEN <<Increment("ecommerce_count", None, 1)>> ELSE <<>>)

\* the statement of add_lines(n); add_url() is add_lines(1)
AddLinesSteps(n) == <<Increment("total_urls", None, n)>>

\* the statements of add_live_check(platform)
AddLiveCheckSteps(platform) ==
    <<Increment("live_checked", None, 1)>>
    \o (IF platform # None
        THEN <<Increment("live_detected", None, 1),
               Increment("live_platforms", platform, 1)>>
        ELSE <<>>)

\* reading and writing the attribute an increment is about
GetCounter(st, c) ==
    CASE c.field = "domains_by_tld" -> st.domains_by_tld[c.key]
      [] c.field = "live_platforms" -> st.live_platforms[c.key]
      [] OTHER -> st[c.field]
PutCounter(st, c, v) ==
    CASE c.field = "domains_by_tld" -> [st EXCEPT !.domains_by_tld[c.key] = v]
      [] c.field = "live_platforms" -> [st EXCEPT !.live_platforms[c.key] = v]
      [] OTHER -> [st EXCEPT ![c.field] = v]

\* a thread that is in no Stats method
OutsideStats == [pc |-> "outside", todo |-> <<>>, tmp |-> 0]

\* history of a run: the calls made, the line counts added, the threads that
\* called, and the values the Stats object had when the pool started
NewLockHist(st, earlier) ==
    [add_calls |-> 0, add_lines_calls |-> 0, lines_added |-> 0, live_calls |-> 0,
     by |-> {}, restored |-> st, earlier_calls |-> earlier]

\* the calls of this run and of the runs before it
StatCalls ==
    hist.earlier_calls + hist.add_calls + hist.add_lines_calls + hist.live_calls

InitStatsLock ==
    /\ stats = NewSharedStats
    /\ stats_lock = 0
    /\ caller = [w \in Threads |-> OutsideStats]
    /\ hist = NewLockHist(NewSharedStats, 0)
    /\ db = EmptyTables
    /\ durable = EmptyTables
    /\ domains_since_save = 0
    /\ run = 1
    /\ v2_input = <<>>
    /\ v2_limit = 0
    /\ v2 = [pc |-> "off"]
    /\ global_seen = {}
    /\ calls = <<>>
    /\ csv_file = NoFile
    /\ collector = <<>>
    /\ DiskOff
    /\ LiveOff
    /\ ClockOff
    /\ args = NoRow
    /\ find = NoRow

\* a thread that ignores the lock
LockIgnored == TRUE
\* "with self.lock:" lets a thread in when no thread holds the lock
LockFree == stats_lock = 0

\* "with self.lock:" of the method thread w calls, and what the call will do
EnterStats(w, steps) ==
    /\ caller[w].pc = "outside"
    /\ StatCalls < MaxStatCalls
    /\ LockFree
    /\ stats_lock' = w
    /\ caller' = [caller EXCEPT ![w] = [pc |-> "locked", todo |-> steps, tmp |-> 0]]

otherLockVars ==
    <<domains_since_save, calls, v2_input, v2_limit, run, v2, global_seen, diskVars,
      liveVars, clockVars, args, find, csv_file, collector>>

\* stats.add(tld, ecom) / stats.add_domain(tld, cms, ecom)
CallAdd(w) ==
    /\ \E tld \in LockTlds, ecom \in BOOLEAN : EnterStats(w, AddSteps(tld, ecom))
    /\ hist' = [hist EXCEPT !.add_calls = @ + 1, !.by = @ \cup {w}]
    /\ UNCHANGED <<db, durable, stats, otherLockVars>>

\* stats.add_lines(n) / stats.add_url()
CallAddLines(w) ==
    /\ \E n \in 1..MaxLines :
          /\ EnterStats(w, AddLinesSteps(n))
          /\ hist' = [hist EXCEPT !.add_lines_calls = @ + 1, !.lines_added = @ + n,
                                  !.by = @ \cup {w}]
    /\ UNCHANGED <<db, durable, stats, otherLockVars>>

\* stats.add_live_check(platform)
CallAddLiveCheck(w) ==
    /\ \E platform \in LockPlatforms \cup {None} :
          EnterStats(w, AddLiveCheckSteps(platform))
    /\ hist' = [hist EXCEPT !.live_calls = @ + 1, !.by = @ \cup {w}]
    /\ UNCHANGED <<db, durable, stats, otherLockVars>>

\* "x += n", first half: the attribute is read
LoadCounter(w) ==
    /\ caller[w].pc = "locked"
    /\ caller[w].todo # <<>>
    /\ caller' = [caller EXCEPT ![w].pc = "loaded",
                                ![w].tmp = GetCounter(stats, Head(caller[w].todo))]
    /\ UNCHANGED <<db, durable, stats, stats_lock, hist, otherLockVars>>

\* "x += n", second half: the sum is written
StoreCounter(w) ==
    /\ caller[w].pc = "loaded"
    /\ LET c == Head(caller[w].todo)
       IN  stats' = PutCounter(stats, c, caller[w].tmp + c.n)
    /\ caller' = [caller EXCEPT ![w].pc = "locked", ![w].todo = Tail(@)]
    /\ UNCHANGED <<db, durable, stats_lock, hist, otherLockVars>>

\* the end of the with block
LeaveStats(w) ==
    /\ caller[w].pc = "locked"
    /\ caller[w].todo = <<>>
    /\ stats_lock' = 0
    /\ caller' = [caller EXCEPT ![w] = OutsideStats]
    /\ UNCHANGED <<db, durable, stats, hist, otherLockVars>>

\* crawler_v2.py lines 352-353, in a pool thread that is in no Stats method:
\* save_stats reads the attributes of the object without taking stats.lock,
\* and the row is committed
SaveStatsUnlocked(w) ==
    /\ caller[w].pc = "outside"
    /\ db' = save_stats(db, stats)
    /\ durable' = db'
    /\ UNCHANGED <<stats, stats_lock, caller, hist, otherLockVars>>

\* the process is killed and started again: a new Stats object, which
\* load_stats fills from the committed row when the run has --resume
\* (crawler_v2.py 518-525); no thread is running yet
NewRun ==
    /\ run < MaxStatRuns
    /\ run' = run + 1
    /\ db' = durable
    /\ \E resume \in BOOLEAN :
          /\ stats' = IF resume THEN load_stats(durable, NewSharedStats)
                      ELSE NewSharedStats
          /\ hist' = NewLockHist(stats', StatCalls)
    /\ stats_lock' = 0
    /\ caller' = [w \in Threads |-> OutsideStats]
    /\ UNCHANGED <<durable, domains_since_save, calls, v2_input, v2_limit, v2,
                   global_seen, diskVars, liveVars, clockVars, args, find, csv_file,
                   collector>>

NextStatsLock ==
    \/ \E w \in Threads : CallAdd(w)
    \/ \E w \in Threads : CallAddLines(w)
    \/ \E w \in Threads : CallAddLiveCheck(w)
    \/ \E w \in Threads : LoadCounter(w)
    \/ \E w \in Threads : StoreCounter(w)
    \/ \E w \in Threads : LeaveStats(w)
    \/ \E w \in Threads : SaveStatsUnlocked(w)
    \/ NewRun

SpecStatsLock == InitStatsLock /\ [][NextStatsLock]_vars

(***************************************************************************)
(* Properties of the Stats lock (SpecStatsLock)                            *)
(***************************************************************************)
\* every thread is outside the Stats methods
AllOutside == caller # <<>> /\ \A w \in Threads : caller[w].pc = "outside"

\* C36: no increment is lost under any interleaving: when every thread is
\* outside the Stats methods, total_domains has grown by the number of
\* add/add_domain calls, total_urls by the sum of the line counts added and
\* live_checked by the number of add_live_check calls
C36_NoIncrementLost ==
    AllOutside =>
        /\ stats.total_domains = hist.restored.total_domains + hist.add_calls
        /\ stats.total_urls = hist.restored.total_urls + hist.lines_added
        /\ stats.live_checked = hist.restored.live_checked + hist.live_calls

\* both threads have called, every method has been called, all have returned
C36_Witness ==
    /\ AllOutside
    /\ hist.by = Threads
    /\ hist.add_calls >= 1
    /\ hist.add_lines_calls >= 1
    /\ hist.live_calls >= 1

SumOver(f) ==
    LET RECURSIVE Total(_)
        Total(S) == IF S = {} THEN 0
                    ELSE LET k == CHOOSE x \in S : TRUE
                         IN  f[k] + Total(S \ {k})
    IN  Total(DOMAIN f)

\* the relations between the counters of one Stats object
Consistent(st) ==
    /\ st.total_domains = SumOver(st.domains_by_tld)
    /\ st.ecommerce_count <= st.total_domains
    /\ st.live_detected <= st.live_checked
    /\ st.live_detected = SumOver(st.live_platforms)

\* C38: whenever the stats lock is free (an observer can take it), the
\* counters are consistent with each other, also in a run whose Stats object
\* load_stats filled from the checkpoint
C38_StatsConsistent ==
    (caller # <<>> /\ stats_lock = 0) => Consistent(stats)

\* C38, first run only (no snapshot restored): the counters are consistent
\* whenever the lock is free
C38_ConsistentWithoutRestore ==
    (caller # <<>> /\ stats_lock = 0 /\ run = 1) => Consistent(stats)

(***************************************************************************)
(* SpecStartup: main of crawler_v2.py (lines 467-548) and of                *)
(* crawler_disk.py (lines 376-414) started with or without --resume on a    *)
(* checkpoint file an earlier run left, up to the first statements of the   *)
(* pool's collect_tld calls (crawler_v2.py 231-238)                         *)
(***************************************************************************)
StartupVariants == {"crawler_v2", "crawler_disk"}

\* the TLD list the earlier run saved as metadata
EarlierTlds == <<"test", "shop">>

\* the stats row the earlier run saved
EarlierStats ==
    [total_urls |-> 3, total_domains |-> 2, ecommerce_count |-> 1, skipped |-> 0]

\* the checkpoint files an earlier run can have left: no, one or two domains;
\* no progress row for "test", one that is not completed or a completed one;
\* with or without a stats row
EarlierTables ==
    {[[save_metadata(EmptyTables, "tlds", EarlierTlds) EXCEPT
          !.domains = rows, !.stats = st] EXCEPT !.tld_progress = progress.tld_progress] :
        rows \in {<<>>,
                  save_domain(<<>>, "a.test", "test", FALSE, "", 1),
                  save_domain(save_domain(<<>>, "a.test", "test", FALSE, "", 1),
                              "b.shop", "shop", TRUE, "Shopify", 2)},
        st \in {NoRow, EarlierStats},
        progress \in {EmptyTables,
                      save_tld_progress(EmptyTables, "test", 3, 1, FALSE, ""),
                      save_tld_progress(EmptyTables, "test", 3, 1, TRUE, "")}}

\* the command lines: -t given or not, --resume or not, --live-check or not
StartupArgs ==
    [tld : {NoTld, <<"test">>, <<"test", "shop">>},
     limit : {DefaultLimitV2},
     pages : {ArgsPages},
     keywords : {None},
     min_urls : {1},
     resume : BOOLEAN,
     live_check : BOOLEAN]

\* crawler_disk.py: -t is required, and main has no resume branch
InitStartup ==
    /\ variant \in StartupVariants
    /\ args \in StartupArgs
    /\ variant = "crawler_disk" => args.tld # NoTld
    /\ db \in EarlierTables
    /\ durable = db
    /\ domains_since_save = 0
    /\ run = 1
    /\ v2 = IF variant = "crawler_v2"
            THEN [pc |-> "resume", tlds |-> <<>>, resumed |-> FALSE]
            ELSE [pc |-> "crawl", tlds |-> args.tld, resumed |-> FALSE]
    /\ live_csv \in [open : {FALSE}, rows : 0..1]
    /\ hist = [original |-> args, checkpoint |-> db, earlier_rows |-> live_csv.rows,
               skipped |-> {}, collecting |-> {}]
    /\ stats = NoRow
    /\ global_seen = {}
    /\ seen = {}
    /\ calls = <<>>
    /\ v2_input = <<>>
    /\ v2_limit = 0
    /\ phase = "off"
    /\ cache_size = 0
    /\ limit = 0
    /\ chunks = <<>>
    /\ task = <<>>
    /\ semaphore = 0
    /\ files = {}
    /\ live_queue = <<>>
    /\ unfinished_tasks = 0
    /\ crawl_done = FALSE
    /\ live_worker = <<>>
    /\ exit_status = None
    /\ DETECTOR_AVAILABLE = TRUE
    /\ ClockOff
    /\ find = NoRow
    /\ ExtraOff

\* a registry that is only seeded on --resume
RegistryOnlyOnResume(a, tables) ==
    IF a.resume THEN get_all_domains(tables) ELSE {}
\* crawler_v2.py 530-531, crawler_disk.py 389-390: the registry is
\* get_all_domains() whenever there is a checkpoint manager; args.resume is
\* not looked at
RegistryAtStart(a, tables) == get_all_domains(tables)

\* crawler_v2.py 518-525 and crawler_disk.py 380-383: the Stats object;
\* crawler_v2 fills it with load_stats when --resume is given
StartStats ==
    /\ v2.pc = "crawl"
    /\ stats' = IF variant = "crawler_v2" /\ args.resume
                THEN load_stats(db, NewStats) ELSE NewStats
    /\ v2' = [v2 EXCEPT !.pc = "registry"]
    /\ UNCHANGED <<storeVars, calls, v2_input, v2_limit, run, global_seen, hist,
                   diskVars, liveVars, otherVars>>

\* crawler_v2.py 527-531: global_seen; crawler_disk.py 385-393: seen, and
\* load_stats when seen is not empty
StartRegistry ==
    /\ v2.pc = "registry"
    /\ IF variant = "crawler_v2"
       THEN /\ global_seen' = RegistryAtStart(args, db)
            /\ UNCHANGED <<seen, stats>>
       ELSE /\ seen' = RegistryAtStart(args, db)
            /\ stats' = IF seen' # {} THEN load_stats(db, stats) ELSE stats
            /\ UNCHANGED global_seen
    /\ v2' = [v2 EXCEPT !.pc = "live"]
    /\ UNCHANGED <<storeVars, calls, v2_input, v2_limit, run, hist, phase, cache_size,
                   limit, chunks, task, semaphore, files, live_queue, liveVars, otherVars>>

\* crawler_v2.py 538-548, crawler_disk.py 401-414: with --live-check the
\* result file is opened, for appending on --resume and else anew
StartLiveCsv ==
    /\ v2.pc = "live"
    /\ live_csv' = IF args.live_check
                   THEN [open |-> TRUE,
                         rows |-> IF args.resume THEN live_csv.rows ELSE 0]
                   ELSE live_csv
    /\ v2' = [v2 EXCEPT !.pc = "pool"]
    /\ UNCHANGED <<storeVars, calls, v2_input, v2_limit, run, global_seen, stats, hist,
                   diskVars, unfinished_tasks, crawl_done, live_worker, exit_status,
                   DETECTOR_AVAILABLE, variant, otherVars>>

\* the TLDs of the list whose collect_tld returns at lines 231-235
CompletedTlds(tables, tlds) ==
    {tlds[i] : i \in {j \in DOMAIN tlds : ProgressCompleted(get_tld_progress(tables, tlds[j]))}}

\* crawler_v2.py 608-612 and 231-238: one collect_tld per TLD of the list,
\* each of which returns at once when the TLD's progress row is completed;
\* crawler_disk.py has no progress rows and scans every chunk
StartPool ==
    /\ v2.pc = "pool"
    /\ LET all == {v2.tlds[i] : i \in DOMAIN v2.tlds}
           skipped == IF variant = "crawler_v2" THEN CompletedTlds(db, v2.tlds) ELSE {}
       IN  hist' = [hist EXCEPT !.skipped = skipped, !.collecting = all \ skipped]
    /\ v2' = [v2 EXCEPT !.pc = "started"]
    /\ UNCHANGED <<storeVars, calls, v2_input, v2_limit, run, global_seen, stats,
                   diskVars, liveVars, otherVars>>

NextStartup ==
    \/ ArgsResume
    \/ ArgsSaveMetadata
    \/ StartStats
    \/ StartRegistry
    \/ StartLiveCsv
    \/ StartPool

SpecStartup == InitStartup /\ [][NextStartup]_vars

(***************************************************************************)
(* Properties of the start of a run (SpecStartup)                          *)
(***************************************************************************)
\* main has started the pool
Started == v2.pc = "started" /\ "checkpoint" \in DOMAIN hist

\* the dedup registry of the running program
Registry == IF variant = "crawler_v2" THEN global_seen ELSE seen

\* with or without --resume, the registry holds all stored domains and
\* crawler_v2 skips exactly the partitions marked completed
CheckpointHonoured ==
    /\ Registry = get_all_domains(hist.checkpoint)
    /\ variant = "crawler_v2" =>
           hist.skipped = CompletedTlds(hist.checkpoint, v2.tlds)

\* the saved TLD list is used exactly when -t is missing, which needs
\* --resume; the result file keeps its rows exactly on --resume
FlagDecidesTldsAndLiveFile ==
    /\ hist.original.tld = NoTld =>
           hist.original.resume /\ v2.tlds = get_metadata(hist.checkpoint, "tlds", NoTld)
    /\ hist.original.tld # NoTld => v2.tlds = hist.original.tld
    /\ args.live_check =>
           live_csv.rows = IF hist.original.resume THEN hist.earlier_rows ELSE 0

\* the Stats object holds the saved row exactly when --resume was given
StatsLoadedIffResume ==
    stats = IF hist.original.resume THEN load_stats(hist.checkpoint, NewStats)
            ELSE NewStats

\* C40, as stated: the checkpoint is honoured with and without --resume, and
\* the flag decides whether the saved stats and the saved TLD list are
\* loaded and whether the live result file is appended to, in crawler_v2
\* and in crawler_disk
C40_FlagDecidesStatsTldsLiveFile ==
    Started => CheckpointHonoured /\ FlagDecidesTldsAndLiveFile /\ StatsLoadedIffResume

\* C40, amended: the checkpoint is honoured with and without --resume; the
\* flag decides the TLD list and the live result file; it decides the
\* loading of the saved stats in crawler_v2 only: crawler_disk loads them
\* whenever the store holds a domain, whatever the flag
C40_FlagDecidesStatsInV2Only ==
    Started =>
        /\ CheckpointHonoured
        /\ FlagDecidesTldsAndLiveFile
        /\ variant = "crawler_v2" => StatsLoadedIffResume
        /\ variant = "crawler_disk" =>
               stats = IF get_all_domains(hist.checkpoint) # {}
                       THEN load_stats(hist.checkpoint, NewStats) ELSE NewStats

\* a crawler_v2 run without --resume on a checkpoint with stored domains and
\* a completed partition has started its pool
C40_Witness ==
    /\ Started
    /\ variant = "crawler_v2"
    /\ ~hist.original.resume
    /\ Registry # {}
    /\ hist.skipped # {}
    /\ stats = NewStats
    /\ hist.checkpoint.stats # NoRow

=============================================================================
